---- MODULE Spec2Model ----
(***************************************************************************)
(* A model of the host-side Trezor client library: the chunk framers of    *)
(* src/transport/protocol.rs over the HID link of src/transport/hid.rs,    *)
(* the connect and drop of the links of src/transport, and the call /      *)
(* response state machine of src/client.rs.                                *)
(***************************************************************************)
EXTENDS Integers, Sequences, FiniteSets, TLC

VARIABLES
    protocol,      \* the framer the transport was built with: "V1" or "V2"
    hid_version,   \* HidLink.hid_version, fixed when the link is opened
    session_id,    \* ProtocolV2.session_id
    wire,          \* payloads passed to handle.data().write, not yet taken by the device
    handed,        \* the same, as the chunks the framer handed to Link::write_chunk
    inbox,         \* chunks the device has queued; read_chunk returns the head
    origin,        \* what the device queued in inbox (history)
    fres,          \* outcome of the last framer operation
    features,      \* Trezor.features, the cached Features
    held,          \* the TrezorResponse (or the continuation taken from it) the caller holds
    trace,         \* the transport calls of the call in progress and its acks (history)
    cres,          \* outcome of the last client operation
    ack_req,       \* the TxRequest handed to the ack builders (history)
    ack_psbt,      \* the PSBT handed to the ack builders (history)
    ack_out,       \* what the ack builders returned for them (history)
    link           \* the link of the transport: what it holds open, how it was made

fvars == <<protocol, hid_version, session_id, wire, handed, inbox, origin, fres>>

cvars == <<features, held, trace, cres>>

avars == <<ack_req, ack_psbt, ack_out>>

lvars == <<link>>

vars == <<fvars, cvars, avars, lvars>>

(***************************************************************************)
(* Bounds of the model.                                                    *)
(***************************************************************************)
\* the largest number of chunks one message spans
MaxChunks == 3
\* header bytes 0..MaxTamperByte of a queued chunk may be altered in transit
MaxTamperByte == 12

\* interaction acks followed within one operation
MaxAcks == 3

(***************************************************************************)
(* Bytes and byte strings.                                                 *)
(***************************************************************************)
REPLEN == 64
CHUNK_SIZE == 64

Min(a, b) == IF a < b THEN a ELSE b

\* vec![0; n]
Zeros(n) == [i \in 1..n |-> 0]

\* Rust s[a..b] and s[a..] on a 0-based slice
Slice(s, a, b) == SubSeq(s, a + 1, b)
SliceFrom(s, a) == SubSeq(s, a + 1, Len(s))
At(s, i) == s[i + 1]

\* BigEndian::write_u32 / write_u16 of a value cast to the width; every u32 the
\* model writes (a type tag, a length, a session id, a counter) is below 2^31
WriteU32(v) ==
    <<(v \div 16777216) % 256, (v \div 65536) % 256, (v \div 256) % 256, v % 256>>
WriteU16(v) ==
    LET w == v % 65536
    IN  <<(w \div 256) % 256, w % 256>>

\* BigEndian::read_u32 / read_u16 of the first bytes of a slice. Integers here are
\* 32-bit signed: a u32 of 2^31 or more reads as 2^31 - 1, which is no session id,
\* counter or tag of the model and exceeds every length
ReadU32(s) ==
    IF s[1] >= 128 THEN 2147483647
    ELSE ((s[1] * 256 + s[2]) * 256 + s[3]) * 256 + s[4]
ReadU16(s) == s[1] * 256 + s[2]

\* a resize that is left out
ResizeUnpadded(chunk, n) == chunk

\* chunk.resize(REPLEN, 0)
Resize(chunk, n) ==
    IF Len(chunk) >= n THEN SubSeq(chunk, 1, n) ELSE chunk \o Zeros(n - Len(chunk))

(***************************************************************************)
(* Messages.                                                               *)
(***************************************************************************)
\* the tags MessageType::from_i32 accepts (a part of the generated enum)
MessageTypeIds == {0, 1, 2, 3, 17, 18, 26, 41, 77, 400}

ProtoMessage(mt, payload) == [mtype |-> mt, payload |-> payload]

\* payload bytes of the messages the model sends: every position differs from its neighbours
PayloadOf(n) == [i \in 1..n |-> (i * 7 + 5) % 256]

\* payload capacity of a message of k chunks, per framer
V1Capacity(k) == (REPLEN - 1) * k - 8
V2Capacity(k) == (REPLEN - 5) + (REPLEN - 9) * (k - 1) - 8

\* the messages the model frames: type 17 with the payload lengths at and around
\* every chunk boundary up to MaxChunks chunks, and the other types, one of them
\* wider than a byte, empty and on two chunks
Messages ==
    LET PayloadLens ==
            {0, 1} \cup {V1Capacity(MaxChunks), V2Capacity(MaxChunks)}
            \cup UNION {{V1Capacity(k), V1Capacity(k) + 1, V2Capacity(k), V2Capacity(k) + 1} :
                          k \in 1..(MaxChunks - 1)}
    IN  {ProtoMessage(17, PayloadOf(n)) : n \in PayloadLens}
        \cup {ProtoMessage(t, PayloadOf(n)) : t \in {0, 17, 400}, n \in {0, V1Capacity(1) + 1}}

(***************************************************************************)
(* HidLink (src/transport/hid.rs).                                         *)
(***************************************************************************)
\* the bytes HidLink::write_chunk passes to handle.data().write; nothing is written
\* when its assert_eq!(CHUNK_SIZE, chunk.len()) fails
HidWritePayload(version, chunk) ==
    IF Len(chunk) # CHUNK_SIZE THEN <<>>
    ELSE IF version = "V1" THEN chunk ELSE <<0>> \o chunk

\* write_chunk of every chunk of a sequence, in order
RECURSIVE HidWriteAll(_, _)
HidWriteAll(version, chunks) ==
    IF chunks = <<>> THEN <<>>
    ELSE <<HidWritePayload(version, Head(chunks))>> \o HidWriteAll(version, Tail(chunks))

(***************************************************************************)
(* ProtocolV1 (src/transport/protocol.rs).                                 *)
(***************************************************************************)
\* a header whose type tag is written low byte first
V1WriteDataLittleEndian(m) ==
    <<35, 35>> \o <<m.mtype % 256, (m.mtype \div 256) % 256>>
        \o WriteU32(Len(m.payload)) \o m.payload

\* the buffer ProtocolV1::write builds before chunking
V1WriteData(m) ==
    <<35, 35>> \o WriteU16(m.mtype) \o WriteU32(Len(m.payload)) \o m.payload

\* a chunking loop that takes REPLEN bytes of data per chunk
RECURSIVE V1WriteLoopWide(_, _)
V1WriteLoopWide(data, cur) ==
    IF cur >= Len(data) THEN <<>>
    ELSE LET end == Min(cur + REPLEN, Len(data))
             chunk == Resize(<<63>> \o Slice(data, cur, end), REPLEN)
         IN  <<chunk>> \o V1WriteLoopWide(data, end)

\* the chunking loop of ProtocolV1::write, from offset cur
RECURSIVE V1WriteLoop(_, _)
V1WriteLoop(data, cur) ==
    IF cur >= Len(data) THEN <<>>
    ELSE LET end == Min(cur + (REPLEN - 1), Len(data))
             chunk == Resize(<<63>> \o Slice(data, cur, end), REPLEN)
         IN  <<chunk>> \o V1WriteLoop(data, end)

V1WriteChunks(m) == V1WriteLoop(V1WriteData(m), 0)

\* outcome of a framer read: status, decoded message, chunks left in the link
ReadResult(status, mt, payload, rest) ==
    [status |-> status, mtype |-> mt, payload |-> payload, rest |-> rest]

\* a continuation loop that empties the link once the message is complete
RECURSIVE V1ReadLoopDraining(_, _, _, _)
V1ReadLoopDraining(mt, data_length, data, inb) ==
    IF Len(data) >= data_length
    THEN ReadResult("Ok", mt, Slice(data, 0, data_length), <<>>)
    ELSE IF inb = <<>> THEN ReadResult("DeviceReadTimeout", -1, <<>>, inb)
    ELSE LET chunk == Head(inb)
         IN  IF At(chunk, 0) # 63
             THEN ReadResult("DeviceBadMagic", -1, <<>>, Tail(inb))
             ELSE V1ReadLoopDraining(mt, data_length, data \o SliceFrom(chunk, 1),
                                     Tail(inb))

\* the continuation loop of ProtocolV1::read
RECURSIVE V1ReadLoop(_, _, _, _)
V1ReadLoop(mt, data_length, data, inb) ==
    IF Len(data) >= data_length
    THEN ReadResult("Ok", mt, Slice(data, 0, data_length), inb)
    ELSE IF inb = <<>> THEN ReadResult("DeviceReadTimeout", -1, <<>>, inb)
    ELSE LET chunk == Head(inb)
         IN  IF At(chunk, 0) # 63
             THEN ReadResult("DeviceBadMagic", -1, <<>>, Tail(inb))
             ELSE V1ReadLoop(mt, data_length, data \o SliceFrom(chunk, 1), Tail(inb))

\* a magic test that leaves out the third byte
V1BadFirstMagicShort(chunk) == At(chunk, 0) # 63 \/ At(chunk, 1) # 35

\* the magic test ProtocolV1::read makes on the first chunk
V1BadFirstMagic(chunk) == At(chunk, 0) # 63 \/ At(chunk, 1) # 35 \/ At(chunk, 2) # 35

\* a read that empties the link when the first chunk is refused
V1ReadMessageDraining(inb) ==
    IF inb = <<>> THEN ReadResult("DeviceReadTimeout", -1, <<>>, inb)
    ELSE LET chunk == Head(inb)
             message_type_id == ReadU16(Slice(chunk, 3, 5))
             data_length == ReadU32(Slice(chunk, 5, 9))
         IN  IF V1BadFirstMagic(chunk)
             THEN ReadResult("DeviceBadMagic", -1, <<>>, <<>>)
             ELSE IF message_type_id \notin MessageTypeIds
             THEN ReadResult("InvalidMessageType", message_type_id, <<>>, <<>>)
             ELSE V1ReadLoop(message_type_id, data_length, SliceFrom(chunk, 9), Tail(inb))

\* ProtocolV1::read on the chunks queued in the link
V1ReadMessage(inb) ==
    IF inb = <<>> THEN ReadResult("DeviceReadTimeout", -1, <<>>, inb)
    ELSE LET chunk == Head(inb)
             message_type_id == ReadU16(Slice(chunk, 3, 5))
             data_length == ReadU32(Slice(chunk, 5, 9))
         IN  IF V1BadFirstMagic(chunk)
             THEN ReadResult("DeviceBadMagic", -1, <<>>, Tail(inb))
             ELSE IF message_type_id \notin MessageTypeIds
             THEN ReadResult("InvalidMessageType", message_type_id, <<>>, Tail(inb))
             ELSE V1ReadLoop(message_type_id, data_length, SliceFrom(chunk, 9), Tail(inb))

(***************************************************************************)
(* ProtocolV2 (src/transport/protocol.rs).                                 *)
(***************************************************************************)
\* an assertion that is left out
V2AssertNothing(sid) == TRUE

\* assert!(self.session_id != 0) of session_end, write and read
V2AssertSession(sid) == sid # 0

\* the chunk session_begin writes
V2SessionBeginChunk == Resize(<<3>>, REPLEN)

\* the chunk session_end writes
V2SessionEndChunk(sid) == Resize(<<4>> \o WriteU32(sid), REPLEN)

\* the buffer ProtocolV2::write builds before chunking
V2WriteData(m) == WriteU32(m.mtype) \o WriteU32(Len(m.payload)) \o m.payload

\* a header whose sequence numbers start at one
V2WriteHeaderFromOne(sid, seq) ==
    IF seq < 0 THEN <<1>> \o WriteU32(sid)
    ELSE <<1>> \o WriteU32(sid) \o WriteU32(seq + 1)

\* the header ProtocolV2::write puts on a chunk: seq < 0 on the first chunk
V2WriteHeader(sid, seq) ==
    IF seq < 0 THEN <<1>> \o WriteU32(sid)
    ELSE <<1>> \o WriteU32(sid) \o WriteU32(seq)

\* the chunking loop of ProtocolV2::write, from offset cur with counter seq
RECURSIVE V2WriteLoop(_, _, _, _)
V2WriteLoop(sid, data, cur, seq) ==
    IF cur >= Len(data) THEN <<>>
    ELSE LET header == V2WriteHeader(sid, seq)
             end == Min(cur + (REPLEN - Len(header)), Len(data))
             chunk == Resize(header \o Slice(data, cur, end), REPLEN)
         IN  <<chunk>> \o V2WriteLoop(sid, data, end, seq + 1)

V2WriteChunks(sid, m) == V2WriteLoop(sid, V2WriteData(m), 0, -1)

\* a continuation loop that does not look at the sequence number
RECURSIVE V2ReadLoopAnySeq(_, _, _, _, _, _)
V2ReadLoopAnySeq(sid, mt, data_length, data, seq, inb) ==
    IF Len(data) >= data_length
    THEN ReadResult("Ok", mt, Slice(data, 0, data_length), inb)
    ELSE IF inb = <<>> THEN ReadResult("DeviceReadTimeout", -1, <<>>, inb)
    ELSE LET chunk == Head(inb)
         IN  IF At(chunk, 0) # 2
             THEN ReadResult("DeviceBadMagic", -1, <<>>, Tail(inb))
             ELSE IF ReadU32(Slice(chunk, 1, 5)) # sid
             THEN ReadResult("DeviceBadSessionId", -1, <<>>, Tail(inb))
             ELSE V2ReadLoopAnySeq(sid, mt, data_length, data \o SliceFrom(chunk, 9),
                                   seq + 1, Tail(inb))

\* the continuation loop of ProtocolV2::read
RECURSIVE V2ReadLoop(_, _, _, _, _, _)
V2ReadLoop(sid, mt, data_length, data, seq, inb) ==
    IF Len(data) >= data_length
    THEN ReadResult("Ok", mt, Slice(data, 0, data_length), inb)
    ELSE IF inb = <<>> THEN ReadResult("DeviceReadTimeout", -1, <<>>, inb)
    ELSE LET chunk == Head(inb)
         IN  IF At(chunk, 0) # 2
             THEN ReadResult("DeviceBadMagic", -1, <<>>, Tail(inb))
             ELSE IF ReadU32(Slice(chunk, 1, 5)) # sid
             THEN ReadResult("DeviceBadSessionId", -1, <<>>, Tail(inb))
             ELSE IF ReadU32(Slice(chunk, 5, 9)) # seq
             THEN ReadResult("DeviceUnexpectedSequenceNumber", -1, <<>>, Tail(inb))
             ELSE V2ReadLoop(sid, mt, data_length, data \o SliceFrom(chunk, 9),
                             seq + 1, Tail(inb))

\* a first-chunk check that looks at the type tag before the session id
V2ReadMessageTagFirst(sid, inb) ==
    IF inb = <<>> THEN ReadResult("DeviceReadTimeout", -1, <<>>, inb)
    ELSE LET chunk == Head(inb)
             message_type_id == ReadU32(Slice(chunk, 5, 9))
             data_length == ReadU32(Slice(chunk, 9, 13))
         IN  IF At(chunk, 0) # 1
             THEN ReadResult("DeviceBadMagic", -1, <<>>, Tail(inb))
             ELSE IF message_type_id \notin MessageTypeIds
             THEN ReadResult("InvalidMessageType", message_type_id, <<>>, Tail(inb))
             ELSE IF ReadU32(Slice(chunk, 1, 5)) # sid
             THEN ReadResult("DeviceBadSessionId", -1, <<>>, Tail(inb))
             ELSE V2ReadLoop(sid, message_type_id, data_length, SliceFrom(chunk, 13),
                             0, Tail(inb))

\* ProtocolV2::read, past its assertion, on the chunks queued in the link
V2ReadMessage(sid, inb) ==
    IF inb = <<>> THEN ReadResult("DeviceReadTimeout", -1, <<>>, inb)
    ELSE LET chunk == Head(inb)
             message_type_id == ReadU32(Slice(chunk, 5, 9))
             data_length == ReadU32(Slice(chunk, 9, 13))
         IN  IF At(chunk, 0) # 1
             THEN ReadResult("DeviceBadMagic", -1, <<>>, Tail(inb))
             ELSE IF ReadU32(Slice(chunk, 1, 5)) # sid
             THEN ReadResult("DeviceBadSessionId", -1, <<>>, Tail(inb))
             ELSE IF message_type_id \notin MessageTypeIds
             THEN ReadResult("InvalidMessageType", message_type_id, <<>>, Tail(inb))
             ELSE V2ReadLoop(sid, message_type_id, data_length, SliceFrom(chunk, 13),
                             0, Tail(inb))

(***************************************************************************)
(* The device side of the link, and the records the model keeps.           *)
(***************************************************************************)

Origin(kind, proto, sid, msg, tamper) ==
    [kind |-> kind, proto |-> proto, sid |-> sid, msg |-> msg, tamper |-> tamper]

NoOrigin == Origin("none", "-", 0, ProtoMessage(-1, <<>>), <<>>)

FramerResult(op, proto, status, mt, payload, sid, src) ==
    [op |-> op, proto |-> proto, status |-> status, mtype |-> mt, payload |-> payload,
     sid |-> sid, src |-> src]

Idle == FramerResult("none", "-", "-", -1, <<>>, 0, NoOrigin)

\* the chunks a device frames a V2 message into: continuation chunks carry magic 0x02
RECURSIVE DeviceV2Loop(_, _, _, _)
DeviceV2Loop(sid, data, cur, seq) ==
    IF cur >= Len(data) THEN <<>>
    ELSE LET header == IF seq < 0 THEN <<1>> \o WriteU32(sid)
                       ELSE <<2>> \o WriteU32(sid) \o WriteU32(seq)
             end == Min(cur + (REPLEN - Len(header)), Len(data))
             chunk == Resize(header \o Slice(data, cur, end), REPLEN)
         IN  <<chunk>> \o DeviceV2Loop(sid, data, end, seq + 1)

DeviceV2Chunks(sid, m) == DeviceV2Loop(sid, V2WriteData(m), 0, -1)

\* the chunks a device frames a V1 message into
DeviceV1Chunks(m) == V1WriteLoop(V1WriteData(m), 0)

\* the reply chunk of a device to session_begin (magic 3) or session_end (magic 4)
DeviceSessionChunk(magic, sid) == Resize(<<magic>> \o WriteU32(sid), REPLEN)

(***************************************************************************)
(* Framer operations.                                                      *)
(***************************************************************************)
FramerInit ==
    /\ protocol \in {"V1", "V2"}
    /\ hid_version \in {"V1", "V2"}
    /\ session_id = 0
    /\ wire = <<>>
    /\ handed = <<>>
    /\ inbox = <<>>
    /\ origin = NoOrigin
    /\ fres = Idle

\* ProtocolV1::write(m); a request is written when no response is pending
V1Write(m) ==
    /\ protocol = "V1"
    /\ inbox = <<>>
    /\ handed' = V1WriteChunks(m)
    /\ wire' = HidWriteAll(hid_version, handed')
    /\ fres' = FramerResult("write", "V1", "Ok", m.mtype, m.payload, 0, NoOrigin)
    /\ origin' = NoOrigin
    /\ UNCHANGED <<cvars, avars, lvars, protocol, hid_version, session_id, inbox>>

\* ProtocolV1::read()
V1Read ==
    LET r == V1ReadMessage(inbox)
    IN  /\ protocol = "V1"
        /\ fres.op # "read" \/ inbox # <<>>
        /\ inbox' = r.rest
        /\ fres' = FramerResult("read", "V1", r.status, r.mtype, r.payload, 0, origin)
        /\ origin' = NoOrigin
        /\ UNCHANGED <<cvars, avars, lvars, protocol, hid_version, session_id, wire, handed>>

\* ProtocolV2::session_begin()
V2SessionBegin ==
    LET chunk == V2SessionBeginChunk
        status == IF inbox = <<>> THEN "DeviceReadTimeout"
                  ELSE IF At(Head(inbox), 0) # 3 THEN "DeviceBadMagic" ELSE "Ok"
    IN  /\ protocol = "V2"
        /\ fres.op # "session_begin" \/ inbox # <<>>
        /\ handed' = <<chunk>>
        /\ wire' = HidWriteAll(hid_version, handed')
        /\ inbox' = IF inbox = <<>> THEN inbox ELSE Tail(inbox)
        /\ session_id' = IF status = "Ok" THEN ReadU32(Slice(Head(inbox), 1, 5))
                         ELSE session_id
        /\ fres' = FramerResult("session_begin", "V2", status, -1, <<>>, session_id, origin)
        /\ origin' = NoOrigin
        /\ UNCHANGED <<cvars, avars, lvars, protocol, hid_version>>

\* a session_end that forgets the session whatever the reply
V2SessionEndClearing ==
    LET chunk == V2SessionEndChunk(session_id)
        status == IF ~V2AssertSession(session_id) THEN "Panic"
                  ELSE IF inbox = <<>> THEN "DeviceReadTimeout"
                  ELSE IF At(Head(inbox), 0) # 4 THEN "DeviceBadMagic" ELSE "Ok"
    IN  /\ protocol = "V2"
        /\ fres.op # "session_end" \/ inbox # <<>>
        /\ handed' = IF status = "Panic" THEN handed ELSE <<chunk>>
        /\ wire' = HidWriteAll(hid_version, handed')
        /\ inbox' = IF status = "Panic" \/ inbox = <<>> THEN inbox ELSE Tail(inbox)
        /\ session_id' = 0
        /\ fres' = FramerResult("session_end", "V2", status, -1, <<>>, session_id, origin)
        /\ origin' = NoOrigin
        /\ UNCHANGED <<cvars, avars, lvars, protocol, hid_version>>

\* ProtocolV2::session_end()
V2SessionEnd ==
    LET chunk == V2SessionEndChunk(session_id)
        status == IF ~V2AssertSession(session_id) THEN "Panic"
                  ELSE IF inbox = <<>> THEN "DeviceReadTimeout"
                  ELSE IF At(Head(inbox), 0) # 4 THEN "DeviceBadMagic" ELSE "Ok"
    IN  /\ protocol = "V2"
        /\ fres.op # "session_end" \/ inbox # <<>>
        /\ handed' = IF status = "Panic" THEN handed ELSE <<chunk>>
        /\ wire' = HidWriteAll(hid_version, handed')
        /\ inbox' = IF status = "Panic" \/ inbox = <<>> THEN inbox ELSE Tail(inbox)
        /\ session_id' = IF status = "Ok" THEN 0 ELSE session_id
        /\ fres' = FramerResult("session_end", "V2", status, -1, <<>>, session_id, origin)
        /\ origin' = NoOrigin
        /\ UNCHANGED <<cvars, avars, lvars, protocol, hid_version>>

\* ProtocolV2::write(m); a request is written when no response is pending
V2Write(m) ==
    LET status == IF ~V2AssertSession(session_id) THEN "Panic" ELSE "Ok"
    IN  /\ protocol = "V2"
        /\ inbox = <<>>
        /\ handed' = IF status = "Panic" THEN handed ELSE V2WriteChunks(session_id, m)
        /\ wire' = HidWriteAll(hid_version, handed')
        /\ fres' = FramerResult("write", "V2", status, m.mtype, m.payload, session_id,
                                NoOrigin)
        /\ origin' = NoOrigin
        /\ UNCHANGED <<cvars, avars, lvars, protocol, hid_version, session_id, inbox>>

\* ProtocolV2::read()
V2Read ==
    LET r == IF ~V2AssertSession(session_id) THEN ReadResult("Panic", -1, <<>>, inbox)
             ELSE V2ReadMessage(session_id, inbox)
    IN  /\ protocol = "V2"
        /\ fres.op # "read" \/ inbox # <<>>
        /\ inbox' = r.rest
        /\ fres' = FramerResult("read", "V2", r.status, r.mtype, r.payload, session_id,
                                origin)
        /\ origin' = NoOrigin
        /\ UNCHANGED <<cvars, avars, lvars, protocol, hid_version, session_id, wire, handed>>

(***************************************************************************)
(* The device and the cable.                                               *)
(***************************************************************************)
\* the device returns, unmodified and in order, the chunks of the last write
Echo ==
    /\ fres.op = "write" /\ fres.status = "Ok"
    /\ inbox = <<>>
    /\ inbox' = handed
    /\ origin' = Origin("echo", fres.proto, fres.sid,
                        ProtoMessage(fres.mtype, fres.payload), <<>>)
    /\ wire' = <<>>
    /\ handed' = <<>>
    /\ fres' = Idle
    /\ UNCHANGED <<cvars, avars, lvars, protocol, hid_version, session_id>>

\* the device takes what is on the wire and answers with message m in its framing
DeviceSend(m) ==
    /\ inbox = <<>>
    /\ inbox' = IF protocol = "V1" THEN DeviceV1Chunks(m)
                ELSE DeviceV2Chunks(session_id, m)
    /\ origin' = Origin("device", protocol, IF protocol = "V1" THEN 0 ELSE session_id,
                        m, <<>>)
    /\ wire' = <<>>
    /\ handed' = <<>>
    /\ fres' = Idle
    /\ UNCHANGED <<cvars, avars, lvars, protocol, hid_version, session_id>>

\* the device queues two chunks of its own making for a message of 60 bytes: a first
\* chunk with the magic, session id and type tag given, and a continuation chunk with
\* the magic, session id and sequence number given (V1 chunks carry no session id
\* and no sequence number)
DeviceSendChunks(magic, sid, tag, magic2, sid2, seq) ==
    LET first == IF protocol = "V1"
                 THEN <<magic, 35, 35>> \o WriteU16(tag) \o WriteU32(60)
                 ELSE <<magic>> \o WriteU32(sid) \o WriteU32(tag) \o WriteU32(60)
        second == IF protocol = "V1" THEN <<magic2>>
                  ELSE <<magic2>> \o WriteU32(sid2) \o WriteU32(seq)
    IN  /\ inbox = <<>>
        /\ inbox' = <<Resize(first, REPLEN), Resize(second, REPLEN)>>
        /\ origin' = Origin("chunks", protocol, sid, ProtoMessage(tag, Zeros(60)), <<>>)
        /\ wire' = <<>>
        /\ handed' = <<>>
        /\ fres' = Idle
        /\ UNCHANGED <<cvars, avars, lvars, protocol, hid_version, session_id>>

\* the device queues its reply to a session_begin or session_end
DeviceSessionReply(magic, sid) ==
    /\ protocol = "V2"
    /\ inbox = <<>>
    /\ inbox' = <<DeviceSessionChunk(magic, sid)>>
    /\ origin' = Origin("reply", "V2", sid, ProtoMessage(magic, <<>>), <<>>)
    /\ wire' = <<>>
    /\ handed' = <<>>
    /\ fres' = Idle
    /\ UNCHANGED <<cvars, avars, lvars, protocol, hid_version, session_id>>

\* byte j of chunk i queued by the device is altered in transit to b; of a session
\* reply only the magic byte is altered
Tamper(i, j, b) ==
    /\ origin.kind \in {"device", "reply"} /\ origin.tamper = <<>>
    /\ origin.kind = "reply" => j = 0
    /\ i \in 1..Len(inbox)
    /\ At(inbox[i], j) # b
    /\ inbox' = [inbox EXCEPT ![i][j + 1] = b]
    /\ origin' = [origin EXCEPT !.tamper =
                     <<[chunk |-> i, byte |-> j, old |-> At(inbox[i], j), new |-> b]>>]
    /\ UNCHANGED <<cvars, avars, lvars, protocol, hid_version, session_id, wire, handed, fres>>

FramerNext ==
    \/ \E m \in Messages : V1Write(m)
    \/ V1Read
    \/ V2SessionBegin
    \/ V2SessionEnd
    \/ \E m \in Messages : V2Write(m)
    \/ V2Read
    \/ Echo
    \/ \E m \in Messages : DeviceSend(m)
    \/ \E magic \in {3, 4}, sid \in {0, 42, 16909060} : DeviceSessionReply(magic, sid)
    \/ \E magic \in {1, 63}, sid \in {session_id, 7}, tag \in {17, 9999},
          magic2 \in {2, 63}, sid2 \in {session_id, 7}, seq \in {0, 1} :
          DeviceSendChunks(magic, sid, tag, magic2, sid2, seq)
    \/ \E i \in 1..(MaxChunks + 1), j \in 0..MaxTamperByte, b \in {0, 1, 100, 255} :
          Tamper(i, j, b)

(***************************************************************************)
(* The client (src/client.rs): call, the response variants, the acks.      *)
(***************************************************************************)

\* the contents that the parsing postprocess of get_public_key accepts
ParsableBodies == {"a"}

\* a message read from the transport: type, contents, and whether the payload parses
\* as a protobuf message of that type
DeviceMessage(mt, body, parses) == [mtype |-> mt, body |-> body, parses |-> parses]

\* what a device answers with: every message type once, the types whose contents
\* the model varies, and the types sent with a payload that does not parse
DeviceMessages ==
    LET ResponseTypes ==
            {"Features", "Success", "PublicKey", "Failure", "ButtonRequest",
             "PinMatrixRequest", "PassphraseRequest", "PassphraseStateRequest",
             "EntropyRequest"}
        VariedTypes == {"PublicKey", "Failure"}
        UnparsableTypes == {"Success", "Failure", "ButtonRequest", "PassphraseStateRequest"}
    IN  {DeviceMessage(mt, "a", TRUE) : mt \in ResponseTypes}
            \cup {DeviceMessage(mt, "b", TRUE) : mt \in VariedTypes}
            \cup {DeviceMessage(mt, "a", FALSE) : mt \in UnparsableTypes}

NoDeviceMessage == DeviceMessage("-", "-", FALSE)

\* what the transport does with one exchange: write_message fails, or read_message
\* fails, or read_message returns resp
Exchange(write_ok, read_ok, resp) ==
    [write_ok |-> write_ok, read_ok |-> read_ok, resp |-> resp]

Exchanges ==
    {Exchange(FALSE, FALSE, NoDeviceMessage), Exchange(TRUE, FALSE, NoDeviceMessage)}
        \cup {Exchange(TRUE, TRUE, resp) : resp \in DeviceMessages}

\* Result<T>: Ok(val) or Err(err)
Ok(val) == [ok |-> TRUE, val |-> val, err |-> <<>>]
Err(err) == [ok |-> FALSE, val |-> <<>>, err |-> err]

\* a TrezorResponse<T, R>: its variant, what the variant holds (the T of Ok, the
\* Failure message, the request message of an interaction), and for an interaction
\* the result_handler and R of its continuation
Response(variant, value, handler, expect) ==
    [variant |-> variant, value |-> value, handler |-> handler, expect |-> expect]

NoResponse == Response("None", <<>>, "-", "-")

\* the result handlers of initialize (|_, m| Ok(m)), ping (|_, _| Ok(())) and
\* get_public_key (|_, m| Ok(m.get_xpub().parse()?)), of reset_device
\* (|c, _| Ok(EntropyRequest { client: c })) and of sign_tx and ack_msg
\* (|c, m| Ok(SignTxProgress::new(c, m)))
ResultHandler(handler, body) ==
    CASE handler = "message" -> Ok(<<"message", body>>)
      [] handler = "unit" -> Ok(<<"unit">>)
      [] handler = "entropy_request" -> Ok(<<"EntropyRequest">>)
      [] handler = "sign_tx_progress" -> Ok(<<"SignTxProgress", body>>)
      [] handler = "parse" ->
            IF body \in ParsableBodies THEN Ok(<<"xpub", body>>) ELSE Err(<<"Base58">>)
      [] handler = "parse_address" ->
            IF body \in ParsableBodies THEN Ok(<<"address", body>>) ELSE Err(<<"Base58">>)
      [] handler = "parse_signature" ->
            IF body \in ParsableBodies THEN Ok(<<"address", body, "signature">>)
            ELSE Err(<<"Base58">>)

\* ProtoMessage::into_message: the payload parsed as a protobuf message
TakeMessage(resp) ==
    IF resp.parses THEN Ok(<<resp.body>>) ELSE Err(<<"Protobuf">>)

\* Trezor::call_raw: one write_message, then one read_message
CallRaw(write_ok, read_ok, resp) ==
    IF ~write_ok THEN Err(<<"TransportSendMessage">>)
    ELSE IF ~read_ok THEN Err(<<"TransportReceiveMessage">>)
    ELSE Ok(<<resp.mtype>>)

\* a dispatch that hands a PinMatrixRequest out as a ButtonRequest
CallDispatchConfused(handler, expect, resp) ==
    IF resp.mtype = expect
    THEN IF ~TakeMessage(resp).ok THEN Err(TakeMessage(resp).err)
         ELSE LET t == ResultHandler(handler, resp.body)
              IN  IF t.ok THEN Ok(Response("Ok", t.val, "-", expect)) ELSE Err(t.err)
    ELSE IF resp.mtype = "Failure"
    THEN IF ~TakeMessage(resp).ok THEN Err(TakeMessage(resp).err)
         ELSE Ok(Response("Failure", TakeMessage(resp).val, "-", expect))
    ELSE IF resp.mtype \in {"ButtonRequest", "PinMatrixRequest"}
    THEN IF ~TakeMessage(resp).ok THEN Err(TakeMessage(resp).err)
         ELSE Ok(Response("ButtonRequest", TakeMessage(resp).val, handler, expect))
    ELSE IF resp.mtype = "PassphraseRequest"
    THEN IF ~TakeMessage(resp).ok THEN Err(TakeMessage(resp).err)
         ELSE Ok(Response(resp.mtype, TakeMessage(resp).val, handler, expect))
    ELSE Err(<<"UnexpectedMessageType", resp.mtype>>)

\* Trezor::call after call_raw: the response dispatched on its message type
CallDispatch(handler, expect, resp) ==
    IF resp.mtype = expect
    THEN IF ~TakeMessage(resp).ok THEN Err(TakeMessage(resp).err)
         ELSE LET t == ResultHandler(handler, resp.body)
              IN  IF t.ok THEN Ok(Response("Ok", t.val, "-", expect)) ELSE Err(t.err)
    ELSE IF resp.mtype = "Failure"
    THEN IF ~TakeMessage(resp).ok THEN Err(TakeMessage(resp).err)
         ELSE Ok(Response("Failure", TakeMessage(resp).val, "-", expect))
    ELSE IF resp.mtype \in {"ButtonRequest", "PinMatrixRequest", "PassphraseRequest"}
    THEN IF ~TakeMessage(resp).ok THEN Err(TakeMessage(resp).err)
         ELSE Ok(Response(resp.mtype, TakeMessage(resp).val, handler, expect))
    ELSE Err(<<"UnexpectedMessageType", resp.mtype>>)

\* Trezor::call
Call(handler, expect, write_ok, read_ok, resp) ==
    IF ~CallRaw(write_ok, read_ok, resp).ok THEN Err(CallRaw(write_ok, read_ok, resp).err)
    ELSE CallDispatch(handler, expect, resp)

\* the InteractionType of an interaction variant
InteractionType(variant) ==
    CASE variant = "ButtonRequest" -> "Button"
      [] variant = "PinMatrixRequest" -> "PinMatrix"
      [] variant = "PassphraseRequest" -> "Passphrase"

\* what a projection returns on success: the continuation an interaction variant holds
Continuation(r) == <<r.variant, r.value, r.handler, r.expect>>

\* TrezorResponse::ok
ProjectOk(r) ==
    CASE r.variant = "Ok" -> Ok(r.value)
      [] r.variant = "Failure" -> Err(<<"FailureResponse", r.value>>)
      [] OTHER -> Err(<<"UnexpectedInteractionRequest", InteractionType(r.variant)>>)

\* a button_request that also takes a PinMatrixRequest
ProjectButtonRequestLoose(r) ==
    CASE r.variant \in {"ButtonRequest", "PinMatrixRequest"} -> Ok(Continuation(r))
      [] r.variant = "Ok" -> Err(<<"UnexpectedMessageType", r.expect>>)
      [] r.variant = "Failure" -> Err(<<"FailureResponse", r.value>>)
      [] OTHER -> Err(<<"UnexpectedInteractionRequest", InteractionType(r.variant)>>)

\* TrezorResponse::button_request
ProjectButtonRequest(r) ==
    CASE r.variant = "ButtonRequest" -> Ok(Continuation(r))
      [] r.variant = "Ok" -> Err(<<"UnexpectedMessageType", r.expect>>)
      [] r.variant = "Failure" -> Err(<<"FailureResponse", r.value>>)
      [] OTHER -> Err(<<"UnexpectedInteractionRequest", InteractionType(r.variant)>>)

\* a pin_matrix_request that names its own kind when another interaction is held
ProjectPinMatrixRequestOwnKind(r) ==
    CASE r.variant = "PinMatrixRequest" -> Ok(Continuation(r))
      [] r.variant = "Ok" -> Err(<<"UnexpectedMessageType", r.expect>>)
      [] r.variant = "Failure" -> Err(<<"FailureResponse", r.value>>)
      [] OTHER -> Err(<<"UnexpectedInteractionRequest", "PinMatrix">>)

\* TrezorResponse::pin_matrix_request
ProjectPinMatrixRequest(r) ==
    CASE r.variant = "PinMatrixRequest" -> Ok(Continuation(r))
      [] r.variant = "Ok" -> Err(<<"UnexpectedMessageType", r.expect>>)
      [] r.variant = "Failure" -> Err(<<"FailureResponse", r.value>>)
      [] OTHER -> Err(<<"UnexpectedInteractionRequest", InteractionType(r.variant)>>)

\* a passphrase_request that reports a Failure as an unexpected message type
ProjectPassphraseRequestHidesFailure(r) ==
    CASE r.variant = "PassphraseRequest" -> Ok(Continuation(r))
      [] r.variant \in {"Ok", "Failure"} -> Err(<<"UnexpectedMessageType", r.expect>>)
      [] OTHER -> Err(<<"UnexpectedInteractionRequest", InteractionType(r.variant)>>)

\* TrezorResponse::passphrase_request
ProjectPassphraseRequest(r) ==
    CASE r.variant = "PassphraseRequest" -> Ok(Continuation(r))
      [] r.variant = "Ok" -> Err(<<"UnexpectedMessageType", r.expect>>)
      [] r.variant = "Failure" -> Err(<<"FailureResponse", r.value>>)
      [] OTHER -> Err(<<"UnexpectedInteractionRequest", InteractionType(r.variant)>>)

Projections == {"ok", "button_request", "pin_matrix_request", "passphrase_request"}

Project(projection, r) ==
    CASE projection = "ok" -> ProjectOk(r)
      [] projection = "button_request" -> ProjectButtonRequest(r)
      [] projection = "pin_matrix_request" -> ProjectPinMatrixRequest(r)
      [] projection = "passphrase_request" -> ProjectPassphraseRequest(r)

\* the variant a projection is named after
VariantOf(projection) ==
    CASE projection = "ok" -> "Ok"
      [] projection = "button_request" -> "ButtonRequest"
      [] projection = "pin_matrix_request" -> "PinMatrixRequest"
      [] projection = "passphrase_request" -> "PassphraseRequest"

\* a transport call of the client: write_message or read_message, the type of the
\* message written or read, the contents of a message read, and whether the call
\* succeeded
Event(op, mtype, body, ok) == [op |-> op, mtype |-> mtype, body |-> body, ok |-> ok]

\* a call_raw that goes on to read_message after write_message failed
CallRawEventsReadAnyway(sent, x) ==
    <<Event("write", sent[1], "-", x.write_ok), Event("read", x.resp.mtype, x.resp.body, x.read_ok)>>

\* a call_raw that reads the response twice
CallRawEventsReadTwice(sent, x) ==
    <<Event("write", sent[1], "-", x.write_ok)>>
        \o (IF x.write_ok
            THEN <<Event("read", x.resp.mtype, x.resp.body, x.read_ok),
                   Event("read", x.resp.mtype, x.resp.body, x.read_ok)>>
            ELSE <<>>)

\* the transport calls Trezor::call_raw makes: write_message, and read_message if
\* the write succeeded
CallRawEvents(sent, x) ==
    <<Event("write", sent[1], "-", x.write_ok)>>
        \o (IF x.write_ok THEN <<Event("read", x.resp.mtype, x.resp.body, x.read_ok)>> ELSE <<>>)

\* the value a result handler built keeps the &mut Trezor it was given
HoldsClient(val) == Len(val) > 0 /\ val[1] \in {"EntropyRequest", "SignTxProgress"}

\* outcome of a client operation: the operation, the projection applied, the
\* argument given, the message sent with its result_handler and R, the message
\* received, the Result (a TrezorResponse for a call, a value or continuation for a
\* projection), and the response the caller held before
ClientResult(op, proj, arg, sent, handler, expect, recv, ok, err, response, val, before) ==
    [op |-> op, proj |-> proj, arg |-> arg, sent |-> sent, handler |-> handler,
     expect |-> expect, recv |-> recv, ok |-> ok, err |-> err, response |-> response,
     val |-> val, before |-> before]

\* trezor_with_transport
ClientInit ==
    /\ features = <<>>
    /\ held = NoResponse
    /\ trace = <<>>
    /\ cres = ClientResult("none", "-", <<>>, <<>>, "-", "-", NoDeviceMessage, TRUE, <<>>,
                           NoResponse, <<>>, NoResponse)

\* self.call(message, result_handler) with the exchange x the transport makes of it;
\* prior holds the transport calls of the operation so far, arg the caller's argument
DoCall(sent, arg, handler, expect, x, prior) ==
    LET r == Call(handler, expect, x.write_ok, x.read_ok, x.resp)
    IN  /\ held' = IF r.ok THEN r.val ELSE NoResponse
        /\ trace' = prior \o CallRawEvents(sent, x)
        /\ cres' = ClientResult("call", "-", arg, sent, handler, expect, x.resp, r.ok,
                                r.err, IF r.ok THEN r.val ELSE NoResponse, <<>>, held)
        /\ UNCHANGED <<fvars, avars, lvars, features>>

\* a client that can always be called
NotBorrowedEver == TRUE

\* the client is not borrowed: call takes &'a mut self, and every TrezorResponse,
\* continuation, EntropyRequest and SignTxProgress holds that borrow while it lives
NotBorrowed == held = NoResponse

\* an ack continues the operation; the model follows a chain up to MaxAcks acks
CanAck == Len(trace) <= 2 * MaxAcks

\* Trezor::initialize
Initialize(x) ==
    /\ NotBorrowed
    /\ DoCall(<<"Initialize">>, <<>>, "message", "Features", x, <<>>)

\* Trezor::ping
Ping(x) ==
    /\ NotBorrowed
    /\ DoCall(<<"Ping">>, <<>>, "unit", "Success", x, <<>>)

\* Trezor::change_pin
ChangePin(x) ==
    /\ NotBorrowed
    /\ DoCall(<<"ChangePin">>, <<>>, "unit", "Success", x, <<>>)

\* Trezor::reset_device
ResetDevice(x) ==
    /\ NotBorrowed
    /\ DoCall(<<"ResetDevice">>, <<>>, "entropy_request", "EntropyRequest", x, <<>>)

\* bitcoin::network::constants::Network
Networks == {"Bitcoin", "Testnet", "Regtest"}

\* a coin_name that takes every other network for Testnet
CoinNameLenient(network) ==
    IF network = "Bitcoin" THEN Ok("Bitcoin") ELSE Ok("Testnet")

\* utils::coin_name
CoinName(network) ==
    CASE network = "Bitcoin" -> Ok("Bitcoin")
      [] network = "Testnet" -> Ok("Testnet")
      [] OTHER -> Err(<<"UnsupportedNetwork">>)

\* an operation that sets the coin name of its message from the network before it
\* calls: req.set_coin_name(utils::coin_name(network)?); self.call(req, handler)
CallOnNetwork(op, message, network, handler, expect, x) ==
    LET coin == CoinName(network)
    IN  IF ~coin.ok
        THEN /\ cres' = ClientResult(op, "-", <<network>>, <<>>, "-", "-", NoDeviceMessage,
                                     FALSE, coin.err, NoResponse, <<>>, held)
             /\ UNCHANGED <<fvars, avars, lvars, features, held, trace>>
        ELSE DoCall(<<message, coin.val>>, <<network>>, handler, expect, x, <<>>)

\* Trezor::get_public_key
GetPublicKey(network, x) ==
    /\ NotBorrowed
    /\ CallOnNetwork("get_public_key", "GetPublicKey", network, "parse", "PublicKey", x)

\* Trezor::get_address
GetAddress(network, x) ==
    /\ NotBorrowed
    /\ CallOnNetwork("get_address", "GetAddress", network, "parse_address", "Address", x)

\* Trezor::sign_message
SignMessage(network, x) ==
    /\ NotBorrowed
    /\ CallOnNetwork("sign_message", "SignMessage", network, "parse_signature",
                     "MessageSignature", x)

\* a ButtonRequest::ack that re-enters call with a handler of its own
ButtonAckOwnHandler(x) ==
    /\ held.variant = "ButtonRequest"
    /\ CanAck
    /\ DoCall(<<"ButtonAck">>, <<>>, "unit", held.expect, x, trace)

\* ButtonRequest::ack
ButtonAck(x) ==
    /\ held.variant = "ButtonRequest"
    /\ CanAck
    /\ DoCall(<<"ButtonAck">>, <<>>, held.handler, held.expect, x, trace)

\* an ack_pin that sends a ButtonAck
PinMatrixAckAsButton(pin, x) ==
    /\ held.variant = "PinMatrixRequest"
    /\ CanAck
    /\ DoCall(<<"ButtonAck">>, <<pin>>, held.handler, held.expect, x, trace)

\* PinMatrixRequest::ack_pin
PinMatrixAck(pin, x) ==
    /\ held.variant = "PinMatrixRequest"
    /\ CanAck
    /\ DoCall(<<"PinMatrixAck", pin>>, <<pin>>, held.handler, held.expect, x, trace)

\* PassphraseRequest::ack_passphrase
PassphraseAck(passphrase, x) ==
    /\ held.variant = "PassphraseRequest"
    /\ CanAck
    /\ DoCall(<<"PassphraseAck", passphrase>>, <<passphrase>>, held.handler,
              held.expect, x, trace)

\* PassphraseRequest::ack
PassphraseAckOnDevice(x) ==
    /\ held.variant = "PassphraseRequest"
    /\ CanAck
    /\ DoCall(<<"PassphraseAck">>, <<>>, held.handler, held.expect, x, trace)

\* the TxRequest messages a device sends while signing: the request type, and for
\* one of them a request without details and a request that names the transaction
\* an input spends by its hash
TxBodies ==
    {"TXINPUT", "TXINPUT_OF_HASH", "TXOUTPUT", "TXMETA", "TXMETA_NODETAILS",
     "TXEXTRADATA", "TXFINISHED"}

\* TxRequest::get_request_type and TxRequest::has_details
RequestType(body) ==
    CASE body = "TXMETA_NODETAILS" -> "TXMETA"
      [] body = "TXINPUT_OF_HASH" -> "TXINPUT"
      [] OTHER -> body

HasDetails(body) == body # "TXMETA_NODETAILS"

\* the PSBTs a caller signs with: one that holds what the device asks for, one whose
\* unsigned transaction has no inputs, one whose inputs carry no utxo data
Psbts == {"complete", "no_inputs", "no_utxo"}

\* the TxAck contents a caller hands to ack_msg
TxAcks == {"inputs", "outputs", "meta"}

\* what a device answers while signing
SignMessages ==
    {DeviceMessage("TxRequest", body, TRUE) : body \in TxBodies}
        \cup {DeviceMessage("TxRequest", "TXINPUT", FALSE),
              DeviceMessage("ButtonRequest", "a", TRUE),
              DeviceMessage("Failure", "a", TRUE),
              DeviceMessage("Success", "a", TRUE)}

SignExchanges ==
    {Exchange(FALSE, FALSE, NoDeviceMessage), Exchange(TRUE, FALSE, NoDeviceMessage)}
        \cup {Exchange(TRUE, TRUE, resp) : resp \in SignMessages}

\* the caller holds a SignTxProgress
HoldsProgress(r) ==
    r.variant = "Ok" /\ Len(r.value) = 2 /\ r.value[1] = "SignTxProgress"

\* a finished() that is never true
FinishedNever(r) == FALSE

\* SignTxProgress::finished
Finished(r) == RequestType(r.value[2]) = "TXFINISHED"

\* ack_input_request, ack_output_request and ack_meta_request: the TxAck that
\* answers the request from the PSBT, or the error
BuildAck(body, psbt) ==
    IF ~HasDetails(body) THEN Err(<<"MalformedTxRequest", body>>)
    ELSE CASE body = "TXINPUT" ->
                 IF psbt = "no_inputs" THEN Err(<<"TxRequestInvalidIndex">>)
                 ELSE IF psbt = "no_utxo" THEN Err(<<"InvalidPsbt">>)
                 ELSE Ok(<<"inputs">>)
           [] body = "TXINPUT_OF_HASH" ->
                 IF psbt = "no_inputs" THEN Err(<<"TxRequestUnknownTxid">>)
                 ELSE IF psbt = "no_utxo" THEN Err(<<"PsbtMissingInputTx">>)
                 ELSE Ok(<<"inputs">>)
           [] RequestType(body) = "TXOUTPUT" -> Ok(<<"outputs">>)
           [] RequestType(body) = "TXMETA" -> Ok(<<"meta">>)

\* a panic: assert!, unimplemented!; nothing is written and what was held is dropped
Panic(arg) ==
    /\ held' = NoResponse
    /\ cres' = ClientResult("panic", "-", arg, <<>>, "-", "-", NoDeviceMessage, FALSE,
                            <<"panic">>, NoResponse, <<>>, held)
    /\ UNCHANGED <<fvars, avars, lvars, features, trace>>

\* Trezor::sign_tx
SignTx(network, x) ==
    /\ NotBorrowed
    /\ CallOnNetwork("sign_tx", "SignTx", network, "sign_tx_progress", "TxRequest", x)

\* SignTxProgress::ack_msg
AckMsg(ack, x) ==
    /\ HoldsProgress(held)
    /\ CanAck
    /\ IF Finished(held) THEN Panic(<<ack>>)
       ELSE DoCall(<<"TxAck", ack>>, <<ack>>, "sign_tx_progress", "TxRequest", x, trace)

\* an ack_psbt that answers every request with the transaction's inputs
AckPsbtInputs(psbt, x) ==
    /\ HoldsProgress(held)
    /\ CanAck
    /\ IF RequestType(held.value[2]) = "TXFINISHED" THEN Panic(<<psbt>>)
       ELSE IF RequestType(held.value[2]) = "TXEXTRADATA" THEN Panic(<<psbt>>)
       ELSE LET ack == BuildAck(held.value[2], psbt)
            IN  IF ~ack.ok
                THEN /\ held' = NoResponse
                     /\ cres' = ClientResult("ack_psbt", "-", <<psbt>>, <<>>, "-", "-",
                                             NoDeviceMessage, FALSE, ack.err, NoResponse,
                                             <<>>, held)
                     /\ UNCHANGED <<fvars, avars, lvars, features, trace>>
                ELSE DoCall(<<"TxAck", "inputs">>, <<psbt>>, "sign_tx_progress",
                            "TxRequest", x, trace)

\* an ack_psbt that answers a request for extra data with the transaction's meta data
AckPsbtExtraData(psbt, x) ==
    /\ HoldsProgress(held)
    /\ CanAck
    /\ IF RequestType(held.value[2]) = "TXFINISHED" THEN Panic(<<psbt>>)
       ELSE IF RequestType(held.value[2]) = "TXEXTRADATA"
       THEN DoCall(<<"TxAck", "meta">>, <<psbt>>, "sign_tx_progress", "TxRequest", x, trace)
       ELSE LET ack == BuildAck(held.value[2], psbt)
            IN  IF ~ack.ok
                THEN /\ held' = NoResponse
                     /\ cres' = ClientResult("ack_psbt", "-", <<psbt>>, <<>>, "-", "-",
                                             NoDeviceMessage, FALSE, ack.err, NoResponse,
                                             <<>>, held)
                     /\ UNCHANGED <<fvars, avars, lvars, features, trace>>
                ELSE DoCall(<<"TxAck", ack.val[1]>>, <<psbt>>, "sign_tx_progress",
                            "TxRequest", x, trace)

\* an ack_psbt that leaves the progress with the caller when no ack can be built
AckPsbtKeeping(psbt, x) ==
    /\ HoldsProgress(held)
    /\ CanAck
    /\ IF RequestType(held.value[2]) = "TXFINISHED" THEN Panic(<<psbt>>)
       ELSE IF RequestType(held.value[2]) = "TXEXTRADATA" THEN Panic(<<psbt>>)
       ELSE LET ack == BuildAck(held.value[2], psbt)
            IN  IF ~ack.ok
                THEN /\ cres' = ClientResult("ack_psbt", "-", <<psbt>>, <<>>, "-", "-",
                                             NoDeviceMessage, FALSE, ack.err, NoResponse,
                                             <<>>, held)
                     /\ UNCHANGED <<fvars, avars, lvars, features, trace, held>>
                ELSE IF Finished(held) THEN Panic(<<psbt>>)
                ELSE DoCall(<<"TxAck", ack.val[1]>>, <<psbt>>, "sign_tx_progress",
                            "TxRequest", x, trace)

\* SignTxProgress::ack_psbt, with ack_msg at its end
AckPsbt(psbt, x) ==
    /\ HoldsProgress(held)
    /\ CanAck
    /\ IF RequestType(held.value[2]) = "TXFINISHED" THEN Panic(<<psbt>>)
       ELSE IF RequestType(held.value[2]) = "TXEXTRADATA" THEN Panic(<<psbt>>)
       ELSE LET ack == BuildAck(held.value[2], psbt)
            IN  IF ~ack.ok
                THEN /\ held' = NoResponse
                     /\ cres' = ClientResult("ack_psbt", "-", <<psbt>>, <<>>, "-", "-",
                                             NoDeviceMessage, FALSE, ack.err, NoResponse,
                                             <<>>, held)
                     /\ UNCHANGED <<fvars, avars, lvars, features, trace>>
                ELSE IF Finished(held) THEN Panic(<<psbt>>)
                ELSE DoCall(<<"TxAck", ack.val[1]>>, <<psbt>>, "sign_tx_progress",
                            "TxRequest", x, trace)

\* the entropy a caller offers: byte strings of these lengths
Entropies == {Zeros(n) : n \in {0, 31, 32, 33}}

\* an ack_entropy that only turns down entropy shorter than 32 bytes
EntropyAckLong(entropy, x) ==
    /\ held.variant = "Ok" /\ held.value = <<"EntropyRequest">>
    /\ IF Len(entropy) < 32
       THEN /\ held' = NoResponse
            /\ cres' = ClientResult("ack_entropy", "-", <<entropy>>, <<>>, "-", "-",
                                    NoDeviceMessage, FALSE, <<"InvalidEntropy">>,
                                    NoResponse, <<>>, held)
            /\ UNCHANGED <<fvars, avars, lvars, features, trace>>
       ELSE DoCall(<<"EntropyAck", entropy>>, <<entropy>>, "unit", "Success", x, <<>>)

\* EntropyRequest::ack_entropy, on the EntropyRequest that reset_device gave
EntropyAck(entropy, x) ==
    /\ held.variant = "Ok" /\ held.value = <<"EntropyRequest">>
    /\ IF Len(entropy) # 32
       THEN /\ held' = NoResponse
            /\ cres' = ClientResult("ack_entropy", "-", <<entropy>>, <<>>, "-", "-",
                                    NoDeviceMessage, FALSE, <<"InvalidEntropy">>,
                                    NoResponse, <<>>, held)
            /\ UNCHANGED <<fvars, avars, lvars, features, trace>>
       ELSE DoCall(<<"EntropyAck", entropy>>, <<entropy>>, "unit", "Success", x, <<>>)

\* the caller applies a projection to the response a call returned; the response is
\* consumed, and a continuation or a value holding the client stays with the caller
Projecting(projection) ==
    LET r == Project(projection, held)
    IN  /\ held # NoResponse
        /\ cres.op = "call"
        /\ held' = IF r.ok /\ (projection # "ok" \/ HoldsClient(r.val)) THEN held
                   ELSE NoResponse
        /\ cres' = ClientResult("project", projection, <<>>, <<>>, "-", "-", cres.recv,
                                r.ok, r.err, NoResponse, r.val, held)
        /\ UNCHANGED <<fvars, avars, lvars, features, trace>>

\* a drop that tells the device to give up what it is waiting for
DropResponseCancelling ==
    /\ held # NoResponse
    /\ held' = NoResponse
    /\ trace' = Append(trace, Event("write", "Cancel", "-", TRUE))
    /\ cres' = ClientResult("drop", "-", <<>>, <<>>, "-", "-", NoDeviceMessage, TRUE,
                            <<>>, NoResponse, <<>>, held)
    /\ UNCHANGED <<fvars, avars, lvars, features>>

\* the caller drops the response or continuation it holds
DropResponse ==
    /\ held # NoResponse
    /\ held' = NoResponse
    /\ cres' = ClientResult("drop", "-", <<>>, <<>>, "-", "-", NoDeviceMessage, TRUE,
                            <<>>, NoResponse, <<>>, held)
    /\ UNCHANGED <<fvars, avars, lvars, features, trace>>

\* an init_device that caches whatever message answered Initialize
InitDeviceCachesAny(x) ==
    LET r == Call("message", "Features", x.write_ok, x.read_ok, x.resp)
        o == IF r.ok THEN ProjectOk(r.val) ELSE Err(r.err)
    IN  /\ NotBorrowed
        /\ features' = IF r.ok THEN <<"message", x.resp.body>> ELSE features
        /\ held' = NoResponse
        /\ trace' = CallRawEvents(<<"Initialize">>, x)
        /\ cres' = ClientResult("init_device", "-", <<>>, <<"Initialize">>, "message",
                                "Features", x.resp, o.ok, o.err, NoResponse, <<>>, held)
        /\ UNCHANGED <<fvars, avars, lvars>>

\* Trezor::init_device: self.initialize()?.ok()?, then the features are cached
InitDevice(x) ==
    LET r == Call("message", "Features", x.write_ok, x.read_ok, x.resp)
        o == IF r.ok THEN ProjectOk(r.val) ELSE Err(r.err)
    IN  /\ NotBorrowed
        /\ features' = IF o.ok THEN o.val ELSE features
        /\ held' = NoResponse
        /\ trace' = CallRawEvents(<<"Initialize">>, x)
        /\ cres' = ClientResult("init_device", "-", <<>>, <<"Initialize">>, "message",
                                "Features", x.resp, o.ok, o.err, NoResponse, <<>>, held)
        /\ UNCHANGED <<fvars, avars, lvars>>

ClientNext ==
    \/ \E x \in Exchanges : Initialize(x)
    \/ \E x \in Exchanges : Ping(x)
    \/ \E x \in Exchanges : ChangePin(x)
    \/ \E x \in Exchanges : ResetDevice(x)
    \* on the network of the examples; NetworkNext draws the network
    \/ \E x \in Exchanges : GetPublicKey("Testnet", x)
    \/ \E x \in Exchanges : ButtonAck(x)
    \/ \E pin \in {"1234"}, x \in Exchanges : PinMatrixAck(pin, x)
    \/ \E passphrase \in {"pass"}, x \in Exchanges : PassphraseAck(passphrase, x)
    \/ \E x \in Exchanges : PassphraseAckOnDevice(x)
    \/ \E entropy \in Entropies, x \in Exchanges : EntropyAck(entropy, x)
    \/ \E projection \in Projections : Projecting(projection)
    \/ DropResponse
    \/ \E x \in Exchanges : InitDevice(x)

(***************************************************************************)
(* Specifications.                                                         *)
(***************************************************************************)
(***************************************************************************)
(* The ack builders of the signing flow (flows/sign_tx.rs) and the helpers *)
(* of utils.rs they use.  An Option is a sequence of length 0 or 1.  A     *)
(* hash is a sequence of HASH_LEN bytes, a script is its kind (what the    *)
(* is_p2pkh, is_v0_p2wpkh, ... predicates of the script answer) and its    *)
(* bytes.                                                                  *)
(***************************************************************************)
HASH_LEN == 32

Reverse(s) == [i \in 1..Len(s) |-> s[Len(s) + 1 - i]]

\* a get whose index wraps around
GetWrapping(s, i) == IF s = <<>> THEN <<>> ELSE <<s[(i % Len(s)) + 1]>>

\* Vec::get / slice::get with a zero-based index
Get(s, i) == IF i < Len(s) THEN <<s[i + 1]>> ELSE <<>>

FromRevBytesAnyLength(rev_bytes) == <<Reverse(rev_bytes)>>

FromRevBytes(rev_bytes) ==
    LET bytes == Reverse(rev_bytes)
    IN  IF Len(bytes) = HASH_LEN THEN <<bytes>> ELSE <<>>

ToRevBytes(hash) == Reverse(hash)

PsbtFindInputLast(psbt, txid) ==
    LET inputs == psbt.unsigned_tx.input
        found  == {i \in 1..Len(inputs) : inputs[i].previous_output.txid = txid}
    IN  IF found = {}
        THEN Err(<<"TxRequestUnknownTxid", txid>>)
        ELSE LET idx == (CHOOSE i \in found : \A j \in found : j <= i) - 1
             IN  IF Get(psbt.inputs, idx) = <<>>
                 THEN Err(<<"TxRequestInvalidIndex", idx>>)
                 ELSE Ok(Get(psbt.inputs, idx)[1])

PsbtFindInput(psbt, txid) ==
    LET inputs == psbt.unsigned_tx.input
        found  == {i \in 1..Len(inputs) : inputs[i].previous_output.txid = txid}
    IN  IF found = {}
        THEN Err(<<"TxRequestUnknownTxid", txid>>)
        ELSE LET idx == (CHOOSE i \in found : \A j \in found : i <= j) - 1
             IN  IF Get(psbt.inputs, idx) = <<>>
                 THEN Err(<<"TxRequestInvalidIndex", idx>>)
                 ELSE Ok(Get(psbt.inputs, idx)[1])


AddressFromScript(script) ==
    IF script.kind = "p2sh" \/ script.kind = "p2pkh" \/ script.kind = "p2wsh" \/ script.kind = "p2wpkh"
    THEN <<script.bytes>>
    ELSE <<>>

\* TxAck_TransactionType_TxInputType: the optional fields are Options
TxInputType(input, address_n, script_type, amount) ==
    [ prev_hash   |-> ToRevBytes(input.previous_output.txid),
      prev_index  |-> input.previous_output.vout,
      script_sig  |-> input.script_sig,
      sequence    |-> input.sequence,
      address_n   |-> address_n,
      script_type |-> script_type,
      amount      |-> amount ]

\* a TxAck whose tx carries one input, one output, one bin_output or the meta fields
TxAck(part, data) == [part |-> part, data |-> data]

InputScriptTypeOfWitnessFirst(txout, psbt_input) ==
    IF txout.script_pubkey.kind = "p2wpkh" \/ txout.script_pubkey.kind = "p2wsh"
        \/ psbt_input.witness_script # <<>>
    THEN "SPENDWITNESS"
    ELSE IF txout.script_pubkey.kind = "p2pkh" THEN "SPENDADDRESS"
    ELSE "EXTERNAL"

InputScriptTypeOf(txout, psbt_input) ==
    IF txout.script_pubkey.kind = "p2pkh" THEN "SPENDADDRESS"
    ELSE IF txout.script_pubkey.kind = "p2wpkh" \/ txout.script_pubkey.kind = "p2wsh"
    THEN "SPENDWITNESS"
    ELSE IF txout.script_pubkey.kind = "p2sh" /\ psbt_input.witness_script # <<>>
    THEN "SPENDP2SHWITNESS"
    ELSE "EXTERNAL"

\* the output the PSBT input spends: witness_utxo, else non_witness_utxo's output
SpentTxOut(input, psbt_input, input_index) ==
    IF psbt_input.witness_utxo # <<>>
    THEN Ok(psbt_input.witness_utxo[1])
    ELSE IF psbt_input.non_witness_utxo # <<>>
    THEN LET opt == Get(psbt_input.non_witness_utxo[1].output, input.previous_output.vout)
         IN  IF opt = <<>>
             THEN Err(<<"InvalidPsbt", "invalid utxo for PSBT input", input_index>>)
             ELSE Ok(opt[1])
    ELSE Err(<<"InvalidPsbt", "no utxo for PSBT input", input_index>>)

AddressN(hd_keypaths) == IF Len(hd_keypaths) = 1 THEN <<hd_keypaths[1]>> ELSE <<>>

AckInputRequest(req, psbt) ==
    IF ~req.has_details \/ ~req.has_request_index
    THEN Err(<<"MalformedTxRequest", req>>)
    ELSE
    LET input_index == req.request_index
        req_hash    == FromRevBytes(req.tx_hash)
        inp         == PsbtFindInput(psbt, req_hash[1])
        input       ==
            IF req.has_tx_hash
            THEN IF req_hash = <<>> THEN Err(<<"MalformedTxRequest", req>>)
                 ELSE IF ~inp.ok THEN inp
                 ELSE IF inp.val.non_witness_utxo = <<>>
                 THEN Err(<<"PsbtMissingInputTx", req_hash[1]>>)
                 ELSE LET opt == Get(inp.val.non_witness_utxo[1].input, input_index)
                      IN  IF opt = <<>>
                          THEN Err(<<"TxRequestInvalidIndex", input_index>>)
                          ELSE Ok(opt[1])
            ELSE LET opt == Get(psbt.unsigned_tx.input, input_index)
                 IN  IF opt = <<>>
                     THEN Err(<<"TxRequestInvalidIndex", input_index>>)
                     ELSE Ok(opt[1])
    IN  IF ~input.ok THEN input
        ELSE IF req.has_tx_hash
        THEN Ok(TxAck("input", TxInputType(input.val, <<>>, <<>>, <<>>)))
        ELSE
        LET psbt_input == Get(psbt.inputs, input_index)
            txout      == SpentTxOut(input.val, psbt_input[1], input_index)
        IN  IF psbt_input = <<>>
            THEN Err(<<"InvalidPsbt", "not enough psbt inputs">>)
            ELSE IF ~txout.ok THEN txout
            ELSE Ok(TxAck("input",
                    TxInputType(input.val,
                                AddressN(psbt_input[1].hd_keypaths),
                                <<InputScriptTypeOf(txout.val, psbt_input[1])>>,
                                <<txout.val.value>>)))

\* TxAck_TransactionType_TxOutputType
TxOutputType(amount, script_type, address, address_n, op_return_data) ==
    [ amount         |-> amount,
      script_type    |-> script_type,
      address        |-> address,
      address_n      |-> address_n,
      op_return_data |-> op_return_data ]

\* the script type of a full output, from the output script and the PSBT output
OutputScriptTypeOf(script_pubkey, psbt_output) ==
    IF script_pubkey.kind = "op_return" THEN "PAYTOOPRETURN"
    ELSE IF psbt_output.witness_script # <<>>
    THEN IF psbt_output.redeem_script # <<>> THEN "PAYTOP2SHWITNESS" ELSE "PAYTOWITNESS"
    ELSE "PAYTOADDRESS"

AckOutputRequest(req, psbt) ==
    IF ~req.has_details \/ ~req.has_request_index
    THEN Err(<<"MalformedTxRequest", req>>)
    ELSE
    LET output_index == req.request_index
        \* TxAck_TransactionType_TxOutputBinType
        TxOutputBinType(output) ==
            [amount |-> output.value, script_pubkey |-> output.script_pubkey.bytes]
    IN  IF req.has_tx_hash
        THEN
        LET req_hash == FromRevBytes(req.tx_hash)
            inp      == PsbtFindInput(psbt, req_hash[1])
        IN  IF req_hash = <<>> THEN Err(<<"MalformedTxRequest", req>>)
            ELSE IF ~inp.ok THEN inp
            ELSE IF inp.val.non_witness_utxo # <<>>
            THEN LET opt == Get(inp.val.non_witness_utxo[1].output, output_index)
                 IN  IF opt = <<>>
                     THEN Err(<<"TxRequestInvalidIndex", output_index>>)
                     ELSE Ok(TxAck("bin_output", TxOutputBinType(opt[1])))
            ELSE IF inp.val.witness_utxo # <<>>
            THEN Ok(TxAck("bin_output", TxOutputBinType(inp.val.witness_utxo[1])))
            ELSE Err(<<"InvalidPsbt", "not all inputs have utxo data">>)
        ELSE
        LET opt         == Get(psbt.unsigned_tx.output, output_index)
            output      == opt[1]
            psbt_output == Get(psbt.outputs, output_index)
            one_keypath == Len(psbt_output[1].hd_keypaths) = 1
        IN  IF opt = <<>> THEN Err(<<"TxRequestInvalidIndex", output_index>>)
            ELSE IF psbt_output = <<>>
            THEN Err(<<"InvalidPsbt", "output indices don't match">>)
            ELSE Ok(TxAck("output",
                    TxOutputType(output.value,
                                 IF one_keypath
                                 THEN OutputScriptTypeOf(output.script_pubkey, psbt_output[1])
                                 ELSE "PAYTOADDRESS",
                                 AddressFromScript(output.script_pubkey),
                                 AddressN(psbt_output[1].hd_keypaths),
                                 IF one_keypath /\ output.script_pubkey.kind = "op_return"
                                 THEN <<SliceFrom(output.script_pubkey.bytes, 1)>>
                                 ELSE <<>>)))

MetaOf(tx) ==
    [ version     |-> tx.version,
      lock_time   |-> tx.lock_time,
      inputs_cnt  |-> Len(tx.input),
      outputs_cnt |-> Len(tx.output) ]

AckMetaRequestSigningOnly(req, psbt) ==
    IF ~req.has_details THEN Err(<<"MalformedTxRequest", req>>)
    ELSE Ok(TxAck("meta", MetaOf(psbt.unsigned_tx)))

AckMetaRequest(req, psbt) ==
    IF ~req.has_details THEN Err(<<"MalformedTxRequest", req>>)
    ELSE
    LET req_hash == FromRevBytes(req.tx_hash)
        inp      == PsbtFindInput(psbt, req_hash[1])
    IN  IF req.has_tx_hash
        THEN IF req_hash = <<>> THEN Err(<<"MalformedTxRequest", req>>)
             ELSE IF ~inp.ok THEN inp
             ELSE IF inp.val.non_witness_utxo = <<>>
             THEN Err(<<"PsbtMissingInputTx", req_hash[1]>>)
             ELSE Ok(TxAck("meta", MetaOf(inp.val.non_witness_utxo[1])))
        ELSE Ok(TxAck("meta", MetaOf(psbt.unsigned_tx)))

\* the match of ack_psbt on the request type, before the TxAck is sent
BuildTxAck(req, psbt) ==
    CASE req.request_type = "TXINPUT"     -> AckInputRequest(req, psbt)
      [] req.request_type = "TXOUTPUT"    -> AckOutputRequest(req, psbt)
      [] req.request_type = "TXMETA"      -> AckMetaRequest(req, psbt)
      [] req.request_type = "TXEXTRADATA" -> Err(<<"panic", "unimplemented">>)
      [] OTHER                            -> Err(<<"panic", "assert">>)

(***************************************************************************)
(* The links (src/transport/hid.rs, src/transport/webusb.rs): connect,     *)
(* the probe of the HID sub-variant, and drop.                             *)
(***************************************************************************)
\* a link: its kind ("none" before a connect succeeds), the device handle and the
\* library context it holds, the USB interface it has claimed, the result of the
\* connect that made it, and as history what the handle was to answer to the probe
\* writes, the writes the probe made, and the resources released, in order
Link(kind, handle, context, interface, status, offered, probe, released) ==
    [kind |-> kind, handle |-> handle, context |-> context, interface |-> interface,
     status |-> status, offered |-> offered, probe |-> probe, released |-> released]

\* what handle.data().write returns: an error, or the number of bytes written
WriteOutcomes ==
    {[ok |-> FALSE, n |-> 0]} \cup {[ok |-> TRUE, n |-> k] : k \in {0, 64, 65}}

\* probe_hid_version, w65 and w64 being what the handle returns to the write of 65
\* and of 64 bytes
ProbeHidVersion(w65, w64) ==
    LET first == <<0, 63>> \o [i \in 1..63 |-> 255]
        second == <<63>> \o [i \in 1..63 |-> 255]
        Outcome(status, version, writes) ==
            [status |-> status, version |-> version, writes |-> writes]
    IN  IF ~w65.ok THEN Outcome("Hid", "-", <<first>>)
        ELSE IF w65.n = 65 THEN Outcome("Ok", "V2", <<first>>)
        ELSE IF ~w64.ok THEN Outcome("Hid", "-", <<first, second>>)
        ELSE IF w64.n = 64 THEN Outcome("Ok", "V1", <<first, second>>)
        ELSE Outcome("UnknownHidVersion", "-", <<first, second>>)

\* HidTransport::connect: found tells how the search for the device and dev.open()
\* ended. When the probe fails the locals go out of scope, the handle before the
\* manager declared ahead of it.
HidConnect(found, w65, w64) ==
    LET probed == ProbeHidVersion(w65, w64)
    IN  /\ link.handle # "open"
        /\ protocol = "V1"
        /\ IF found # "Ok"
           THEN /\ link' = Link("none", "none", "none", "none", found, <<>>, <<>>,
                                <<"context">>)
                /\ UNCHANGED <<hid_version, wire>>
           ELSE /\ wire' = probed.writes
                /\ hid_version' = probed.version
                /\ link' = IF probed.status = "Ok"
                           THEN Link("hid", "open", "live", "none", "Ok", <<w65, w64>>,
                                     probed.writes, <<>>)
                           ELSE Link("none", "none", "none", "none", probed.status,
                                     <<w65, w64>>, probed.writes, <<"handle", "context">>)
        /\ UNCHANGED <<cvars, avars, protocol, session_id, handed, inbox, origin, fres>>

\* WebUsbTransport::connect: step tells where it ended. The context is leaked to a
\* static reference once made and the handle once the interface is claimed; an error
\* return in between leaves the context leaked and drops the handle, a local.
WebUsbConnect(step) ==
    /\ link.handle # "open"
    /\ protocol = "V1"
    /\ link' = CASE step = "Ok" ->
                    Link("webusb", "open", "live", "claimed", "Ok", <<>>, <<>>, <<>>)
                [] step = "Context" ->
                    Link("none", "none", "none", "none", "Usb", <<>>, <<>>, <<>>)
                [] step = "Claim" ->
                    Link("none", "none", "leaked", "none", "Usb", <<>>, <<>>, <<"handle">>)
                [] OTHER ->
                    Link("none", "none", "leaked", "none", step, <<>>, <<>>, <<>>)
    /\ hid_version' = "-"
    /\ UNCHANGED <<cvars, avars, protocol, session_id, wire, handed, inbox, origin, fres>>

\* the drop of one resource of a link: of the handle, which releases the interface
\* it has claimed before it closes, or of the library context
Release(l, resource) ==
    IF resource = "handle" /\ l.handle = "open"
    THEN [l EXCEPT !.handle = "none", !.interface = "none",
                   !.released = @ \o (IF l.interface = "claimed" THEN <<"interface">>
                                      ELSE <<>>) \o <<"handle">>]
    ELSE IF resource = "context" /\ l.context = "live"
    THEN [l EXCEPT !.context = "none", !.released = Append(@, "context")]
    ELSE l

\* a drop of HidLink that releases nothing itself
HidLinkDropNothing(l) == l

\* Drop::drop of HidLink: self.handle.take()
HidLinkDrop(l) == Release(l, "handle")

\* the drop of the fields of a struct, in the order of their declaration
RECURSIVE DropFields(_, _)
DropFields(l, fields) ==
    IF fields = <<>> THEN l
    ELSE DropFields(Release(l, Head(fields)), Tail(fields))

\* Drop::drop of WebUsbLink: the handle is re-boxed and dropped, then the context
WebUsbLinkDrop(l) == Release(Release(l, "handle"), "context")

\* the transport is dropped: Drop::drop of its link runs, then its fields are
\* dropped (HidLink: hid_version, _hid_manager, handle; WebUsbLink holds references
\* and a number); the framer goes with it
DropLink ==
    /\ link.handle = "open"
    /\ link' = IF link.kind = "hid"
               THEN DropFields(HidLinkDrop(link), <<"hid_version", "context", "handle">>)
               ELSE DropFields(WebUsbLinkDrop(link), <<>>)
    /\ hid_version' = "-"
    /\ wire' = <<>>
    /\ handed' = <<>>
    /\ inbox' = <<>>
    /\ origin' = NoOrigin
    /\ fres' = Idle
    /\ UNCHANGED <<cvars, avars, protocol, session_id>>

\* a transport over the HID link, opened
LinkInit ==
    link = Link("hid", "open", "live", "none", "Ok", <<>>, <<>>, <<>>)

\* connect, the traffic of ProtocolV1 over an open HID link, and drop
LinkNext ==
    \/ \E found \in {"Ok", "NoDeviceFound", "Hid"}, w65 \in WriteOutcomes,
          w64 \in WriteOutcomes : HidConnect(found, w65, w64)
    \/ \E step \in {"Ok", "Context", "DeviceDisconnected", "Open", "Claim"} :
          WebUsbConnect(step)
    \/ DropLink
    \/ link.kind = "hid" /\ link.handle = "open" /\ \E m \in Messages : V1Write(m)
    \/ link.kind = "hid" /\ link.handle = "open" /\ V1Read
    \/ link.kind = "hid" /\ link.handle = "open" /\ Echo

(***************************************************************************)
(* The requests and PSBTs the ack builders are applied to.                 *)
(***************************************************************************)
\* txids: the signing transaction spends Txid(1) and Txid(2), not Txid(3)
Txid(k) == [i \in 1..HASH_LEN |-> (k * i) % 256]

\* a script of a kind; its first byte is OP_DUP, OP_0, OP_HASH160, OP_RETURN or OP_1
Script(kind) ==
    LET FirstOpcode ==
            CASE kind = "p2pkh"     -> 118
              [] kind = "p2wpkh"    -> 0
              [] kind = "p2wsh"     -> 0
              [] kind = "p2sh"      -> 169
              [] kind = "op_return" -> 106
              [] OTHER              -> 81
    IN  [kind |-> kind, bytes |-> <<FirstOpcode, 7, 9>>]

TxOut(value, kind) == [value |-> value, script_pubkey |-> Script(kind)]

TxIn(txid, vout, sequence) ==
    [ previous_output |-> [txid |-> txid, vout |-> vout],
      script_sig      |-> <<>>,
      sequence        |-> sequence ]

Transaction(version, lock_time, input, output) ==
    [version |-> version, lock_time |-> lock_time, input |-> input, output |-> output]

\* the i-th copy of a spent transaction: i inputs, two outputs
DepTx(i, kind) ==
    Transaction(1, 500 + i,
                [j \in 1..i |-> TxIn(Txid(3), j, 0)],
                <<TxOut(10 * i + 1, kind), TxOut(10 * i + 2, kind)>>)

Keypaths(n) == [j \in 1..n |-> <<44, j>>]

UtxoKinds == {"none", "witness", "non_witness", "both"}

\* psbt::Input
PsbtInput(utxo, i, kind, witness_script, keypaths) ==
    [ witness_utxo     |-> IF utxo \in {"witness", "both"}
                           THEN <<TxOut(100 + i, kind)>> ELSE <<>>,
      non_witness_utxo |-> IF utxo \in {"non_witness", "both"}
                           THEN <<DepTx(i, kind)>> ELSE <<>>,
      hd_keypaths      |-> Keypaths(keypaths),
      witness_script   |-> IF witness_script THEN <<Script("other")>> ELSE <<>> ]

\* psbt::Output
PsbtOutput(witness_script, redeem_script, keypaths) ==
    [ witness_script |-> IF witness_script THEN <<Script("other")>> ELSE <<>>,
      redeem_script  |-> IF redeem_script THEN <<Script("other")>> ELSE <<>>,
      hd_keypaths    |-> Keypaths(keypaths) ]

\* psbt::PartiallySignedTransaction
Psbt(unsigned_tx, inputs, outputs) ==
    [unsigned_tx |-> unsigned_tx, inputs |-> inputs, outputs |-> outputs]

\* the txids spent by the inputs of the signing transaction, in order
Layouts == {<<Txid(1)>>, <<Txid(1), Txid(1)>>, <<Txid(2), Txid(1)>>}

MaxKeypaths == 2
MaxIndex == 2

\* a PSBT whose first input varies; short: psbt.inputs lacks the last input
InputPsbt(layout, utxo, kind, witness_script, keypaths, short, vout) ==
    LET n == Len(layout)
    IN  Psbt(Transaction(2, 0,
                         [i \in 1..n |-> TxIn(layout[i], vout, 1000 + i)],
                         <<TxOut(50, "p2pkh")>>),
             [i \in 1..(IF short THEN n - 1 ELSE n) |->
                 PsbtInput(IF i = 1 THEN utxo ELSE "both", i, kind,
                           witness_script, keypaths)],
             <<PsbtOutput(FALSE, FALSE, 0)>>)

InputPsbts ==
    { InputPsbt(layout, utxo, kind, ws, kp, short, vout) :
        layout \in Layouts, utxo \in UtxoKinds,
        kind \in {"p2pkh", "p2wpkh", "p2wsh", "p2sh", "other"}, ws \in BOOLEAN,
        kp \in 0..MaxKeypaths, short \in BOOLEAN, vout \in {0, 5} }

\* a PSBT whose two outputs vary; short: psbt.outputs lacks the last output
OutputPsbt(utxo, kind, witness_script, redeem_script, keypaths, short) ==
    Psbt(Transaction(2, 0,
                     <<TxIn(Txid(1), 0, 1001)>>,
                     <<TxOut(51, kind), TxOut(52, kind)>>),
         <<PsbtInput(utxo, 1, "p2pkh", FALSE, 1)>>,
         [j \in 1..(IF short THEN 1 ELSE 2) |->
             PsbtOutput(witness_script, redeem_script, keypaths)])

OutputPsbts ==
    { OutputPsbt(utxo, kind, ws, rs, kp, short) :
        utxo \in UtxoKinds, kind \in {"op_return", "p2pkh", "p2wsh", "other"},
        ws \in BOOLEAN, rs \in BOOLEAN, kp \in 0..MaxKeypaths, short \in BOOLEAN }

MetaPsbts ==
    { InputPsbt(layout, utxo, "p2pkh", FALSE, 1, short, 0) :
        layout \in Layouts, utxo \in UtxoKinds, short \in BOOLEAN }

\* protos::TxRequest: request_type and the fields of details
TxRequest(request_type, has_details, has_request_index, request_index, tx_hash) ==
    [ request_type      |-> request_type,
      has_details       |-> has_details,
      has_request_index |-> has_request_index,
      request_index     |-> request_index,
      has_tx_hash       |-> tx_hash # <<>>,
      tx_hash           |-> IF tx_hash = <<>> THEN <<>> ELSE tx_hash[1] ]

\* tx_hash of a request: absent, too short, the reversed bytes of a txid, or
\* the bytes of a txid as they are
TxHashes ==
    {<<>>, <<SubSeq(Txid(1), 1, HASH_LEN - 1)>>, <<Txid(1)>>}
        \cup {<<ToRevBytes(t)>> : t \in {Txid(1), Txid(2), Txid(3)}}

RequestsOf(request_type) ==
    {TxRequest(request_type, FALSE, FALSE, 0, <<>>)}
        \cup {TxRequest(request_type, TRUE, FALSE, 0, h) : h \in TxHashes}
        \cup {TxRequest(request_type, TRUE, TRUE, i, h) : i \in 0..MaxIndex, h \in TxHashes}

NoTxRequest == TxRequest("none", FALSE, FALSE, 0, <<>>)

AckInit ==
    /\ ack_req = NoTxRequest
    /\ ack_psbt = Psbt([version |-> 0, lock_time |-> 0, input |-> <<>>, output |-> <<>>], <<>>, <<>>)
    /\ ack_out = Err(<<"none">>)

\* SignTxProgress::ack_psbt up to the call: the TxAck built for the request
BuildAckFor(req, psbt) ==
    /\ ack_req' = req
    /\ ack_psbt' = psbt
    /\ ack_out' = BuildTxAck(req, psbt)
    /\ UNCHANGED <<fvars, cvars, lvars>>

\* no request has been handed to the ack builders yet
Unasked == ack_req = NoTxRequest

AckNext ==
    \/ Unasked /\ \E req \in RequestsOf("TXINPUT"), psbt \in InputPsbts :
                      BuildAckFor(req, psbt)
    \/ Unasked /\ \E req \in RequestsOf("TXOUTPUT"), psbt \in OutputPsbts :
                      BuildAckFor(req, psbt)
    \/ Unasked /\ \E req \in RequestsOf("TXMETA"), psbt \in MetaPsbts :
                      BuildAckFor(req, psbt)
    \/ Unasked /\ \E req \in RequestsOf("TXEXTRADATA") \cup RequestsOf("TXFINISHED"),
                      psbt \in MetaPsbts : BuildAckFor(req, psbt)

Init == FramerInit /\ ClientInit /\ AckInit /\ LinkInit

Next ==
    \/ FramerNext
    \/ ClientNext

Spec == Init /\ [][Next]_vars

\* the framers and the link alone
FramerSpec == Init /\ [][FramerNext]_vars

\* the signing flow of a client: sign_tx, the acks of its SignTxProgress, and the
\* button requests in between
SignNext ==
    \* on the network of the examples; NetworkNext draws the network
    \/ \E x \in SignExchanges : SignTx("Testnet", x)
    \/ \E ack \in TxAcks, x \in SignExchanges : AckMsg(ack, x)
    \/ \E psbt \in Psbts, x \in SignExchanges : AckPsbt(psbt, x)
    \/ \E x \in SignExchanges : ButtonAck(x)
    \/ \E projection \in Projections : Projecting(projection)
    \/ DropResponse

\* the client alone, over a HidTransport, whose framer is a ProtocolV1
ClientSpecInit == Init /\ protocol = "V1" /\ hid_version = "V1"

ClientSpec == ClientSpecInit /\ [][ClientNext]_vars

\* the exchanges of the operations that name a network, with what a device answers
\* to them
NetworkExchanges ==
    LET NetworkMessages ==
            {DeviceMessage(mt, "a", TRUE) :
                mt \in {"PublicKey", "Address", "MessageSignature", "Failure", "ButtonRequest"}}
            \cup {DeviceMessage("Address", "b", TRUE),
                  DeviceMessage("TxRequest", "TXINPUT", TRUE)}
    IN  {Exchange(FALSE, FALSE, NoDeviceMessage), Exchange(TRUE, FALSE, NoDeviceMessage)}
            \cup {Exchange(TRUE, TRUE, resp) : resp \in NetworkMessages}

NetworkNext ==
    \/ \E network \in Networks, x \in NetworkExchanges : GetPublicKey(network, x)
    \/ \E network \in Networks, x \in NetworkExchanges : GetAddress(network, x)
    \/ \E network \in Networks, x \in NetworkExchanges : SignTx(network, x)
    \/ \E network \in Networks, x \in NetworkExchanges : SignMessage(network, x)
    \/ \E x \in NetworkExchanges : ButtonAck(x)
    \/ \E projection \in Projections : Projecting(projection)
    \/ DropResponse

\* the operations of a client that name a network
NetworkSpec == ClientSpecInit /\ [][NetworkNext]_vars

\* the ack builders alone, applied to one request and one PSBT
AckSpec == ClientSpecInit /\ [][AckNext]_vars

SignSpec == ClientSpecInit /\ [][SignNext]_vars

\* a device that signs: it asks for inputs, outputs and metadata and for button
\* presses, and after at most MaxAcks such requests reports TXFINISHED
LoopExchanges ==
    {Exchange(TRUE, TRUE, DeviceMessage("TxRequest", "TXFINISHED", TRUE))}
        \cup (IF Len(trace) >= 2 * MaxAcks THEN {}
              ELSE {Exchange(TRUE, TRUE, DeviceMessage("TxRequest", body, TRUE)) :
                        body \in {"TXINPUT", "TXOUTPUT", "TXMETA"}}
                   \cup {Exchange(TRUE, TRUE, DeviceMessage("ButtonRequest", "a", TRUE))})

\* the caller of examples/sign_tx.rs: sign_tx, then tx_progress, which stops when
\* finished() and otherwise calls ack_psbt, with handle_interaction pressing buttons
LoopNext ==
    \/ /\ cres.op = "none"
       /\ \E x \in LoopExchanges : SignTx("Testnet", x)
    \/ /\ HoldsProgress(held) /\ ~Finished(held)
       /\ \E x \in LoopExchanges : AckPsbt("complete", x)
    \/ \E x \in LoopExchanges : ButtonAck(x)

\* the signing loop against that device; the caller's loop keeps running
LoopSpec == ClientSpecInit /\ [][LoopNext]_vars /\ WF_vars(LoopNext)

\* the life of a link, from before its connect: nothing is held, nothing was written
LinkSpecInit ==
    /\ ClientInit /\ AckInit
    /\ protocol = "V1" /\ hid_version = "-" /\ session_id = 0
    /\ wire = <<>> /\ handed = <<>> /\ inbox = <<>>
    /\ origin = NoOrigin /\ fres = Idle
    /\ link = Link("none", "none", "none", "none", "-", <<>>, <<>>, <<>>)

LinkSpec == LinkSpecInit /\ [][LinkNext]_vars

(***************************************************************************)
(* Properties of the framers.                                              *)
(***************************************************************************)
\* the read returned no message
NoMessageReturned == fres.mtype = -1 /\ fres.payload = <<>>

\* the read returned the message the device or the echo framed
SameMessageReturned ==
    /\ fres.status = "Ok"
    /\ fres.mtype = fres.src.msg.mtype
    /\ fres.payload = fres.src.msg.payload

\* C1: reading, with ProtocolV1, the chunks ProtocolV1::write emitted for a message,
\* in order and unmodified, returns the type and the payload of that message.
C1_V1RoundTrip ==
    (fres.op = "read" /\ fres.proto = "V1" /\ fres.src.kind = "echo")
        => SameMessageReturned

C1_Witness ==
    /\ fres.op = "read" /\ fres.proto = "V1" /\ fres.src.kind = "echo"
    /\ Len(fres.src.msg.payload) = V1Capacity(2) + 1

\* C2: inside an open session, reading with ProtocolV2 the chunks ProtocolV2::write
\* emitted for a message, in order and unmodified, returns that message.
C2_V2RoundTrip ==
    (/\ fres.op = "read" /\ fres.proto = "V2" /\ fres.src.kind = "echo"
     /\ fres.sid # 0 /\ fres.sid = fres.src.sid)
        => SameMessageReturned

\* C3: every chunk a framer hands to the link is 64 bytes long; the HID link passes
\* it on as it is in sub-variant V1 and behind a 0x00 report id, 65 bytes, in V2.
C3_ChunkSize ==
    /\ Len(wire) = Len(handed)
    /\ \A i \in DOMAIN handed :
          /\ Len(handed[i]) = 64
          /\ hid_version = "V1" => wire[i] = handed[i]
          /\ hid_version = "V2" =>
                Len(wire[i]) = 65 /\ wire[i][1] = 0 /\ Tail(wire[i]) = handed[i]

C3_Witness ==
    /\ hid_version = "V2" /\ fres.op = "write" /\ fres.proto = "V2"
    /\ Len(handed) = 3

\* C4: ProtocolV2::read accepts the continuation chunks of a message of k chunks when
\* their SEQ fields are 0, 1, ..., k-2 in that order, and the first continuation chunk
\* (otherwise valid) whose SEQ is another value makes the read fail with
\* DeviceUnexpectedSequenceNumber, returning no message.
C4_V2SequenceNumbers ==
    /\ (origin.kind = "device" /\ origin.proto = "V2" /\ origin.tamper = <<>>)
          => \A i \in 2..Len(inbox) : ReadU32(Slice(inbox[i], 5, 9)) = i - 2
    /\ (/\ fres.op = "read" /\ fres.proto = "V2" /\ fres.src.kind = "device"
        /\ fres.sid # 0 /\ fres.sid = fres.src.sid)
          => /\ fres.src.tamper = <<>> => SameMessageReturned
             /\ (/\ fres.src.tamper # <<>>
                 /\ fres.src.tamper[1].chunk >= 2
                 /\ fres.src.tamper[1].byte \in 5..8)
                   => /\ fres.status = "DeviceUnexpectedSequenceNumber"
                      /\ NoMessageReturned

C4_Witness ==
    /\ fres.op = "read" /\ fres.proto = "V2" /\ fres.src.kind = "device"
    /\ fres.sid # 0
    /\ fres.src.tamper # <<>>
    /\ fres.src.tamper[1].chunk = 3 /\ fres.src.tamper[1].byte = 8

\* C5: a ProtocolV2 write or read issued while the session id is zero is refused
\* (the assertion fails) and puts no chunk on the link and takes none from it; after
\* a successful session_end the session id is zero.
C5_SessionGating ==
    [][/\ (fres'.op \in {"write", "read"} /\ fres'.proto = "V2" /\ session_id = 0)
            => /\ fres'.status = "Panic"
               /\ wire' = wire /\ handed' = handed /\ inbox' = inbox
               /\ session_id' = 0
       /\ (fres'.op = "session_end" /\ fres'.status = "Ok") => session_id' = 0]_vars

C5_Witness ==
    /\ fres.op = "write" /\ fres.proto = "V2" /\ fres.status = "Panic"
    /\ handed = <<V2SessionEndChunk(42)>>

\* C6: after a successful session_begin the stored session id is non-zero and is the
\* big-endian value of bytes 1..5 of the reply.
C6_SessionIdNonZero ==
    (fres.op = "session_begin" /\ fres.status = "Ok" /\ fres.src.kind = "reply")
        => session_id # 0 /\ session_id = fres.src.sid

\* the byte altered in transit was a magic byte of its chunk
MagicTampered ==
    /\ fres.src.tamper # <<>>
    /\ \/ fres.src.tamper[1].byte = 0
       \/ /\ fres.src.proto = "V1"
          /\ fres.src.tamper[1].chunk = 1
          /\ fres.src.tamper[1].byte \in {1, 2}

\* C7: a changed magic byte in an otherwise valid incoming chunk (V1 first chunk
\* bytes 0..3, V1 continuation byte 0, V2 first chunk and continuation byte 0, the
\* session_begin and session_end replies byte 0) makes the operation fail with
\* DeviceBadMagic; no message is returned and the session id stays as it was.
C7_MagicValidation ==
    (/\ MagicTampered
     /\ \/ fres.op = "read" /\ fres.src.kind = "device"
           /\ (fres.proto = "V2" => fres.sid # 0 /\ fres.sid = fres.src.sid)
        \/ fres.op = "session_begin" /\ fres.src.kind = "reply" /\ fres.src.msg.mtype = 3
        \/ fres.op = "session_end" /\ fres.src.kind = "reply" /\ fres.src.msg.mtype = 4
           /\ fres.sid # 0)
        => /\ fres.status = "DeviceBadMagic"
           /\ NoMessageReturned
           /\ session_id = fres.sid

C7_Witness ==
    /\ MagicTampered
    /\ fres.op = "read" /\ fres.proto = "V1" /\ fres.src.kind = "device"
    /\ fres.src.tamper[1].chunk = 1 /\ fres.src.tamper[1].byte = 2

(***************************************************************************)
(* Properties of the client.                                               *)
(***************************************************************************)
\* a call wrote its message and read a response
CallAnswered == cres.op = "call" /\ cres.recv # NoDeviceMessage

InteractionRequests == {"ButtonRequest", "PinMatrixRequest", "PassphraseRequest"}

\* C8 as first stated: a response of type R gives Ok(postprocess(response)), else a
\* Failure gives the Failure variant, else an interaction request gives its variant
\* with the same postprocess, and any other type gives UnexpectedMessageType(type).
C8_DispatchAlways ==
    CallAnswered =>
        IF cres.recv.mtype = cres.expect
        THEN /\ cres.ok /\ cres.response.variant = "Ok"
             /\ cres.response.value = ResultHandler(cres.handler, cres.recv.body).val
        ELSE IF cres.recv.mtype = "Failure"
        THEN cres.ok /\ cres.response.variant = "Failure"
        ELSE IF cres.recv.mtype \in InteractionRequests
        THEN /\ cres.ok /\ cres.response.variant = cres.recv.mtype
             /\ cres.response.handler = cres.handler
        ELSE ~cres.ok /\ cres.err = <<"UnexpectedMessageType", cres.recv.mtype>>

\* C8, amended: the same dispatch when the payload parses as its message type and,
\* for type R, the postprocess succeeds; a payload of type R, Failure or an
\* interaction request that does not parse gives the parse error, and a failing
\* postprocess gives its error; any other type gives UnexpectedMessageType(type).
C8_Dispatch ==
    CallAnswered =>
        IF cres.recv.mtype = cres.expect
        THEN IF ~cres.recv.parses THEN ~cres.ok /\ cres.err = <<"Protobuf">>
             ELSE IF ~ResultHandler(cres.handler, cres.recv.body).ok
             THEN ~cres.ok /\ cres.err = ResultHandler(cres.handler, cres.recv.body).err
             ELSE /\ cres.ok /\ cres.response.variant = "Ok"
                  /\ cres.response.value = ResultHandler(cres.handler, cres.recv.body).val
        ELSE IF cres.recv.mtype \in {"Failure"} \cup InteractionRequests
        THEN IF ~cres.recv.parses THEN ~cres.ok /\ cres.err = <<"Protobuf">>
             ELSE /\ cres.ok /\ cres.response.variant = cres.recv.mtype
                  /\ cres.response.value = <<cres.recv.body>>
                  /\ cres.recv.mtype \in InteractionRequests =>
                        /\ cres.response.handler = cres.handler
                        /\ cres.response.expect = cres.expect
        ELSE ~cres.ok /\ cres.err = <<"UnexpectedMessageType", cres.recv.mtype>>

C8_Witness ==
    /\ CallAnswered
    /\ cres.sent = <<"ButtonAck">> /\ cres.handler = "parse"
    /\ cres.recv.mtype = "PinMatrixRequest"
    /\ held.variant = "PinMatrixRequest"

\* C9: a PassphraseStateRequest from the device makes call return a
\* PassphraseStateRequest variant, not an error.
C9_PassphraseStateVariant ==
    (CallAnswered /\ cres.recv.mtype = "PassphraseStateRequest" /\ cres.recv.parses)
        => cres.ok /\ cres.response.variant = "PassphraseStateRequest"

\* C10: ok() succeeds iff the variant is Ok and button_request(), pin_matrix_request(),
\* passphrase_request() succeed iff the variant is the one they are named after; on
\* success the projection returns the value or the continuation the variant holds.
C10_Projections ==
    cres.op = "project" =>
        /\ cres.ok <=> cres.before.variant = VariantOf(cres.proj)
        /\ cres.ok => cres.val = IF cres.proj = "ok" THEN cres.before.value
                                 ELSE Continuation(cres.before)

C10_Witness ==
    /\ cres.op = "project" /\ cres.proj = "pin_matrix_request" /\ cres.ok
    /\ held.variant = "PinMatrixRequest"

\* C11: every projection applied to the Failure variant returns FailureResponse
\* carrying the code and message of the Failure the device sent.
C11_FailureProjection ==
    (cres.op = "project" /\ cres.before.variant = "Failure") =>
        /\ ~cres.ok
        /\ cres.recv.mtype = "Failure"
        /\ cres.err = <<"FailureResponse", <<cres.recv.body>>>>

C11_Witness ==
    /\ cres.op = "project" /\ cres.proj = "passphrase_request"
    /\ cres.before.variant = "Failure" /\ cres.recv.body = "b"
    /\ cres.err = <<"FailureResponse", <<"b">>>>

\* the kind of interaction a variant stands for
KindHeld(variant) ==
    IF variant = "ButtonRequest" THEN "Button"
    ELSE IF variant = "PinMatrixRequest" THEN "PinMatrix"
    ELSE "Passphrase"

\* ok() or a projection for another kind is applied to an interaction variant
MisusedInteraction ==
    /\ cres.op = "project"
    /\ cres.before.variant \in InteractionRequests
    /\ VariantOf(cres.proj) # cres.before.variant

\* C12: ok() or a projection for a different kind applied to an interaction variant
\* returns UnexpectedInteractionRequest(kind held), and a projection makes no
\* transport call.
C12_InteractionMisuse ==
    /\ [](MisusedInteraction =>
            /\ ~cres.ok
            /\ cres.err = <<"UnexpectedInteractionRequest", KindHeld(cres.before.variant)>>)
    /\ [][cres'.op = "project" => trace' = trace]_vars

C12_Witness ==
    /\ MisusedInteraction
    /\ cres.proj = "pin_matrix_request" /\ cres.before.variant = "ButtonRequest"
    /\ cres.err = <<"UnexpectedInteractionRequest", "Button">>
    /\ Len(trace) = 2

\* the result_handler and R of each operation's first call
OperationOf(request) ==
    CASE request = "Initialize" -> <<"message", "Features">>
      [] request \in {"Ping", "ChangePin", "EntropyAck"} -> <<"unit", "Success">>
      [] request = "ResetDevice" -> <<"entropy_request", "EntropyRequest">>
      [] request = "GetPublicKey" -> <<"parse", "PublicKey">>
      [] request = "GetAddress" -> <<"parse_address", "Address">>
      [] request = "SignMessage" -> <<"parse_signature", "MessageSignature">>
      [] request = "SignTx" -> <<"sign_tx_progress", "TxRequest">>
      [] OTHER -> <<"-", "-">>

\* the last call was made by acknowledging an interaction
Acked == cres.op = "call" /\ cres.before.variant \in InteractionRequests

\* C13: each continuation re-enters call with the Ack of its kind (ButtonAck{},
\* PinMatrixAck{pin}, PassphraseAck{passphrase}, PassphraseAck{}) and with the
\* result_handler and R of the original call, at every step of the chain.
C13_AckReentersCall ==
    /\ Acked =>
        /\ cres.before.variant = "ButtonRequest" => cres.sent = <<"ButtonAck">>
        /\ cres.before.variant = "PinMatrixRequest" =>
              Len(cres.arg) = 1 /\ cres.sent = <<"PinMatrixAck", cres.arg[1]>>
        /\ cres.before.variant = "PassphraseRequest" =>
              cres.sent = <<"PassphraseAck">> \o cres.arg
        /\ <<cres.handler, cres.expect>> = OperationOf(trace[1].mtype)
        /\ (CallAnswered /\ cres.recv.parses /\ cres.recv.mtype = cres.expect
              /\ ResultHandler(OperationOf(trace[1].mtype)[1], cres.recv.body).ok) =>
                 cres.response.value
                    = ResultHandler(OperationOf(trace[1].mtype)[1], cres.recv.body).val
    /\ held.variant \in InteractionRequests =>
          <<held.handler, held.expect>> = OperationOf(trace[1].mtype)

C13_Witness ==
    /\ Acked
    /\ cres.before.variant = "PinMatrixRequest" /\ cres.sent = <<"PinMatrixAck", "1234">>
    /\ Len(trace) = 6 /\ trace[3].mtype = "ButtonAck"
    /\ cres.handler = "parse" /\ held.variant = "Ok" /\ held.value = <<"xpub", "a">>

\* the Ack message that answers an interaction request
AckOf(mtype) ==
    IF mtype = "ButtonRequest" THEN "ButtonAck"
    ELSE IF mtype = "PinMatrixRequest" THEN "PinMatrixAck"
    ELSE "PassphraseAck"

\* the interaction requests read so far in the operation, as positions of trace
InteractionReads ==
    {i \in DOMAIN trace : trace[i].op = "read" /\ trace[i].mtype \in InteractionRequests}

\* the operation sent n+1 messages for the n interaction requests it read: the
\* request, then the Ack of each interaction in the order received, every write
\* followed by one read before the next write
SequentialChain ==
    /\ Len(trace) = 2 * (Cardinality(InteractionReads) + 1)
    /\ \A i \in DOMAIN trace :
          /\ trace[i].ok
          /\ trace[i].op = IF i % 2 = 1 THEN "write" ELSE "read"
          /\ (i % 2 = 0 /\ i < Len(trace)) =>
                /\ i \in InteractionReads
                /\ trace[i + 1].mtype = AckOf(trace[i].mtype)
    /\ OperationOf(trace[1].mtype) = <<cres.handler, cres.expect>>
    /\ trace[Len(trace)].mtype = cres.expect

\* the device answered the request or the last ack with a message of type R
ChainAnswered == CallAnswered /\ cres.recv.mtype = cres.expect

\* C14 as first stated: when the device ends a chain of interaction requests with a
\* response of the expected type, the client has sent the request and one Ack per
\* interaction in order, each followed by one receive, and the final ok() succeeds.
C14_ChainAlways ==
    ChainAnswered => SequentialChain /\ held.variant = "Ok" /\ ProjectOk(held).ok

\* C14, amended: the same, for a final response whose payload parses as R and whose
\* postprocess succeeds; otherwise the last call returns the parse or postprocess
\* error and there is no response to apply ok() to.
C14_Chain ==
    ChainAnswered =>
        /\ SequentialChain
        /\ IF cres.recv.parses /\ ResultHandler(cres.handler, cres.recv.body).ok
           THEN held.variant = "Ok" /\ ProjectOk(held).ok
           ELSE ~cres.ok /\ held = NoResponse

C14_Witness ==
    /\ ChainAnswered /\ held.variant = "Ok"
    /\ Len(trace) = 8
    /\ <<trace[1].mtype, trace[2].mtype, trace[3].mtype, trace[4].mtype>>
          = <<"ChangePin", "ButtonRequest", "ButtonAck", "PinMatrixRequest">>
    /\ <<trace[5].mtype, trace[6].mtype, trace[7].mtype, trace[8].mtype>>
          = <<"PinMatrixAck", "PinMatrixRequest", "PinMatrixAck", "Success">>

\* a step made a call (call_raw, then the dispatch)
CallStep == cres'.op \in {"call", "init_device"} /\ cvars' # cvars

\* the transport calls of the operation before a call step: trace when the step
\* acknowledges an interaction or a TxRequest, none when it is the first call of an
\* operation
PriorTrace ==
    IF held.variant \in InteractionRequests \/ HoldsProgress(held) THEN trace ELSE <<>>

\* writes and reads alternate in t, starting with a write and ending with a read
Alternates(t) ==
    /\ Len(t) % 2 = 0
    /\ \A i \in DOMAIN t : t[i].op = IF i % 2 = 1 THEN "write" ELSE "read"

NoTransportError(t) == \A i \in DOMAIN t : t[i].ok

\* C15: every call_raw makes exactly one write followed by exactly one read, so that
\* with no transport error the writes and reads of a client strictly alternate,
\* starting with a write: each operation starts after the last read of the one
\* before, and within an operation each call adds one write and then one read.
C15_WriteReadAlternation ==
    /\ [](NoTransportError(trace) => Alternates(trace))
    /\ [][(CallStep /\ cres'.recv # NoDeviceMessage) =>
            trace' = PriorTrace \o <<Event("write", cres'.sent[1], "-", TRUE),
                                     Event("read", cres'.recv.mtype, cres'.recv.body, TRUE)>>]_vars

C15_Witness ==
    /\ cres.op = "call" /\ Len(trace) = 6
    /\ NoTransportError(trace) /\ Alternates(trace)

\* C17: a call whose write fails returns the send error without a read, a call
\* whose read fails returns the receive error, neither writes the request again,
\* and the error is the result of the call that met it.
C17_NoRetry ==
    [][CallStep =>
        \/ /\ trace' = PriorTrace \o <<Event("write", cres'.sent[1], "-", FALSE)>>
           /\ ~cres'.ok /\ cres'.err = <<"TransportSendMessage">>
        \/ /\ trace' = PriorTrace \o <<Event("write", cres'.sent[1], "-", TRUE),
                                       Event("read", "-", "-", FALSE)>>
           /\ ~cres'.ok /\ cres'.err = <<"TransportReceiveMessage">>
        \/ /\ trace' = PriorTrace \o <<Event("write", cres'.sent[1], "-", TRUE),
                                       Event("read", cres'.recv.mtype, cres'.recv.body, TRUE)>>
           /\ cres'.err \notin {<<"TransportSendMessage">>, <<"TransportReceiveMessage">>}
      ]_vars

C17_Witness ==
    /\ cres.op = "call" /\ cres.err = <<"TransportSendMessage">>
    /\ Len(trace) = 3 /\ trace[3] = Event("write", "PinMatrixAck", "-", FALSE)
    /\ held = NoResponse

\* the caller answered the EntropyRequest it held
EntropyAcked ==
    /\ cres.op \in {"call", "ack_entropy"}
    /\ cres.before.variant = "Ok" /\ cres.before.value = <<"EntropyRequest">>

\* C18: ack_entropy(b) returns InvalidEntropy and writes nothing when len(b) is not
\* 32; when len(b) = 32 it sends one EntropyAck carrying b and returns the next
\* response.
C18_EntropyAck ==
    /\ [](EntropyAcked =>
            IF Len(cres.arg[1]) # 32
            THEN ~cres.ok /\ cres.err = <<"InvalidEntropy">> /\ cres.sent = <<>>
            ELSE /\ cres.op = "call" /\ cres.sent = <<"EntropyAck", cres.arg[1]>>
                 /\ Len(trace) \in {1, 2} /\ trace[1].mtype = "EntropyAck"
                 /\ cres.ok => held = cres.response /\ held # NoResponse
                 /\ (CallAnswered /\ cres.recv.parses /\ cres.recv.mtype = "Success") =>
                        held.variant = "Ok" /\ held.value = <<"unit">>)
    /\ [][(cres'.op = "ack_entropy" /\ cvars' # cvars) => trace' = trace]_vars

C18_Witness ==
    /\ EntropyAcked /\ Len(cres.arg[1]) = 31
    /\ cres.err = <<"InvalidEntropy">> /\ trace[1].mtype = "ResetDevice"

\* the requests that start an operation
OperationRequests ==
    {"Initialize", "Ping", "ChangePin", "ResetDevice", "GetPublicKey", "GetAddress",
     "SignTx", "SignMessage"}

\* C16: while an interaction continuation or a SignTxProgress obtained from a client
\* exists, no other call is issued on that client: an operation starts only when
\* the caller holds nothing, and what the caller holds is one response or
\* continuation, replaced by the result of the call made through it.
C16_OneOutstandingCall ==
    [][(cres'.op \in {"call", "init_device"} /\ cvars' # cvars) =>
          /\ cres'.sent[1] \in OperationRequests => held = NoResponse
          /\ held # NoResponse =>
                /\ held.variant \in InteractionRequests \/ HoldsProgress(held)
                /\ cres'.before = held
                /\ held' \in {NoResponse, cres'.response}]_vars

C16_Witness ==
    /\ HoldsProgress(held) /\ ~Finished(held)
    /\ cres.op = "call" /\ cres.before.variant = "ButtonRequest"
    /\ trace[1].mtype = "SignTx"

\* C19: finished() is true iff the TxRequest held is of type FINISHED, and through a
\* SignTxProgress that holds a FINISHED request neither ack_msg nor ack_psbt writes
\* anything: no TxAck is ever sent from that state.
C19_NoAckAfterFinished ==
    /\ [](HoldsProgress(held) =>
            /\ trace[Len(trace)].op = "read" /\ trace[Len(trace)].mtype = "TxRequest"
            /\ Finished(held) <=> trace[Len(trace)].body = "TXFINISHED")
    /\ []((cres.op = "call" /\ cres.sent[1] = "TxAck") =>
            HoldsProgress(cres.before) /\ cres.before.value[2] # "TXFINISHED")
    /\ [][(HoldsProgress(held) /\ held.value[2] = "TXFINISHED"
             /\ cres'.op \notin {"project", "drop"} /\ cvars' # cvars) =>
            trace' = trace /\ cres'.op = "panic"]_vars

C19_Witness ==
    /\ cres.op = "panic" /\ HoldsProgress(cres.before)
    /\ cres.before.value[2] = "TXFINISHED"
    /\ Len(trace) = 4 /\ trace[3].mtype = "TxAck" /\ trace[4].body = "TXFINISHED"

\* the contents of the TxAck that answers a request type
AckContent(rtype) ==
    IF rtype = "TXINPUT" THEN "inputs"
    ELSE IF rtype = "TXOUTPUT" THEN "outputs"
    ELSE "meta"

\* the signing loop has stopped: the progress held is finished
LoopDone == HoldsProgress(held) /\ Finished(held)

\* the TxRequests read that are not FINISHED, and the TxAcks written
OpenRequests ==
    {i \in DOMAIN trace : /\ trace[i].op = "read" /\ trace[i].mtype = "TxRequest"
                          /\ trace[i].body # "TXFINISHED"}

AcksWritten == {i \in DOMAIN trace : trace[i].op = "write" /\ trace[i].mtype = "TxAck"}

\* C20: the signing loop (stop if finished(), otherwise ack_psbt and resolve the
\* interactions) against a device that sends FINISHED after finitely many INPUT,
\* OUTPUT and META requests terminates; exactly one TxAck was sent per TxRequest
\* that was not FINISHED, and each was built from the TxRequest read just before.
C20_SigningLoop ==
    /\ <>LoopDone
    /\ [](LoopDone => AcksWritten = {i + 1 : i \in OpenRequests})
    /\ [](AcksWritten \subseteq {i + 1 : i \in OpenRequests})
    /\ []((cres.op = "call" /\ cres.sent[1] = "TxAck") =>
            /\ HoldsProgress(cres.before)
            /\ cres.sent[2] = AckContent(cres.before.value[2])
            /\ \E i \in OpenRequests :
                  /\ trace[i].body = cres.before.value[2]
                  /\ trace[i + 1].mtype = "TxAck"
                  /\ \A j \in AcksWritten : j <= i + 1)

C20_Witness ==
    /\ LoopDone /\ Len(trace) = 8
    /\ <<trace[2].body, trace[4].mtype, trace[6].body, trace[8].body>>
          = <<"TXINPUT", "ButtonRequest", "TXOUTPUT", "TXFINISHED">>
    /\ AcksWritten = {3, 7}

(***************************************************************************)
(* Properties of the ack builders.                                         *)
(***************************************************************************)
\* the request was handed to the builder of one of the three answered types
Asked(request_type) == ack_req.request_type = request_type

Answerable == Asked("TXINPUT") \/ Asked("TXOUTPUT") \/ Asked("TXMETA")

\* the request names a dependent transaction by a well-formed hash
WellFormedHash == ack_req.has_tx_hash /\ Len(ack_req.tx_hash) = HASH_LEN

\* the request carries every field its builder reads before it looks at tx_hash
HasNeededFields ==
    /\ ack_req.has_details
    /\ Asked("TXMETA") \/ ack_req.has_request_index

\* the txid the request names: its tx_hash read backwards
NamedTxid == [i \in 1..HASH_LEN |-> ack_req.tx_hash[HASH_LEN + 1 - i]]

\* the positions of the inputs of the signing transaction that spend the named txid
Spenders ==
    { i \in 1..Len(ack_psbt.unsigned_tx.input) :
        ack_psbt.unsigned_tx.input[i].previous_output.txid = NamedTxid }

FirstSpender == CHOOSE i \in Spenders : \A j \in Spenders : i <= j

\* the PSBT input of the first input that spends the named txid
SpenderData == ack_psbt.inputs[FirstSpender]

\* the request names a dependent transaction whose spending input has PSBT data
DependentFound ==
    /\ WellFormedHash
    /\ Spenders # {}
    /\ FirstSpender <= Len(ack_psbt.inputs)

ErrorIs(kind) == ~ack_out.ok /\ ack_out.err[1] = kind

MetaFields(tx) ==
    [ version     |-> tx.version,
      lock_time   |-> tx.lock_time,
      inputs_cnt  |-> Len(tx.input),
      outputs_cnt |-> Len(tx.output) ]

\* C21: a META request with details is answered by a TxAck that carries version,
\* lock_time and the numbers of inputs and outputs of the signing transaction
\* when it has no tx_hash, and of the non_witness_utxo transaction of the first
\* input that spends tx_hash when it has one.
C21_MetaAck ==
    (Asked("TXMETA") /\ ack_req.has_details) =>
        /\ ~ack_req.has_tx_hash =>
              /\ ack_out.ok
              /\ ack_out.val = [part |-> "meta", data |-> MetaFields(ack_psbt.unsigned_tx)]
        /\ (DependentFound /\ SpenderData.non_witness_utxo # <<>>) =>
              /\ ack_out.ok
              /\ ack_out.val =
                    [part |-> "meta", data |-> MetaFields(SpenderData.non_witness_utxo[1])]

C21_Witness ==
    /\ Asked("TXMETA")
    /\ DependentFound
    /\ ack_out.ok
    /\ ack_out.val.data.inputs_cnt # Len(ack_psbt.unsigned_tx.input)
    /\ ack_out.val.data.lock_time = SpenderData.non_witness_utxo[1].lock_time

\* C23: an INPUT or OUTPUT request without details or without request_index, a
\* META request without details, and a request whose tx_hash is present but not
\* 32 bytes long are answered with MalformedTxRequest; a request with its fields
\* present and a well-formed or absent tx_hash never is.
C23_Malformed ==
    Answerable =>
        (ErrorIs("MalformedTxRequest") <=>
            \/ ~HasNeededFields
            \/ ack_req.has_tx_hash /\ Len(ack_req.tx_hash) # HASH_LEN)

C23_Witness ==
    /\ Asked("TXOUTPUT")
    /\ HasNeededFields
    /\ ack_req.has_tx_hash /\ Len(ack_req.tx_hash) # HASH_LEN
    /\ ErrorIs("MalformedTxRequest")
    /\ ack_out.err[2] = ack_req

\* what a dependent request is answered with when its data is taken from the
\* given PSBT input
AnsweredFrom(psbt_input) ==
    CASE Asked("TXMETA") ->
            /\ psbt_input.non_witness_utxo # <<>>
            /\ ack_out.val.data = MetaFields(psbt_input.non_witness_utxo[1])
      [] Asked("TXINPUT") ->
            /\ psbt_input.non_witness_utxo # <<>>
            /\ ack_req.request_index < Len(psbt_input.non_witness_utxo[1].input)
            /\ LET input == psbt_input.non_witness_utxo[1].input[ack_req.request_index + 1]
               IN  /\ ack_out.val.data.prev_index = input.previous_output.vout
                   /\ ack_out.val.data.sequence = input.sequence
      [] Asked("TXOUTPUT") ->
            IF psbt_input.non_witness_utxo # <<>>
            THEN /\ ack_req.request_index < Len(psbt_input.non_witness_utxo[1].output)
                 /\ ack_out.val.data.amount =
                       psbt_input.non_witness_utxo[1].output[ack_req.request_index + 1].value
            ELSE /\ psbt_input.witness_utxo # <<>>
                 /\ ack_out.val.data.amount = psbt_input.witness_utxo[1].value

\* C24: a well-formed INPUT, OUTPUT or META request whose tx_hash, read
\* backwards, is the txid no input of the signing transaction spends is answered
\* with TxRequestUnknownTxid; when inputs spend it, the answer is built from the
\* PSBT data of the first of them.
C24_UnknownTxid ==
    (Answerable /\ HasNeededFields /\ WellFormedHash) =>
        /\ Spenders = {} => ErrorIs("TxRequestUnknownTxid") /\ ack_out.err[2] = NamedTxid
        /\ Spenders # {} => ~ErrorIs("TxRequestUnknownTxid")
        /\ (Spenders # {} /\ ack_out.ok) =>
              /\ FirstSpender <= Len(ack_psbt.inputs)
              /\ AnsweredFrom(SpenderData)

C24_Witness ==
    /\ Asked("TXINPUT")
    /\ HasNeededFields
    /\ ack_req.tx_hash \in {Txid(1), Txid(2)}
    /\ ErrorIs("TxRequestUnknownTxid")

\* the transaction the request refers to, where the PSBT holds it: the signing
\* transaction, or the non_witness_utxo of the first input that spends tx_hash
ReferredTx ==
    IF ~ack_req.has_tx_hash THEN <<ack_psbt.unsigned_tx>>
    ELSE IF DependentFound THEN SpenderData.non_witness_utxo
    ELSE <<>>

NeededInput ==
    IF ack_req.has_tx_hash
    THEN IF DependentFound THEN <<SpenderData>> ELSE <<>>
    ELSE IF Asked("TXINPUT") /\ ack_req.request_index < Len(ack_psbt.unsigned_tx.input)
            /\ ack_req.request_index < Len(ack_psbt.inputs)
    THEN <<ack_psbt.inputs[ack_req.request_index + 1]>>
    ELSE <<>>

NoUtxoData(psbt_input) ==
    psbt_input.witness_utxo = <<>> /\ psbt_input.non_witness_utxo = <<>>

\* C26: a request answered from a PSBT input that carries neither witness_utxo
\* nor non_witness_utxo is answered with InvalidPsbt, be it an INPUT request of
\* the signing transaction or an INPUT, OUTPUT or META request of a dependent one.
C26_MissingUtxo ==
    (Answerable /\ HasNeededFields /\ NeededInput # <<>> /\ NoUtxoData(NeededInput[1])) =>
        ErrorIs("InvalidPsbt")

\* the script type of the full output the request asks for, by the rules in
\* their order
ExpectedOutputScriptType ==
    LET script      == ack_psbt.unsigned_tx.output[ack_req.request_index + 1].script_pubkey
        psbt_output == ack_psbt.outputs[ack_req.request_index + 1]
    IN  IF script.kind = "op_return" THEN "PAYTOOPRETURN"
        ELSE IF psbt_output.witness_script # <<>> /\ psbt_output.redeem_script # <<>>
        THEN "PAYTOP2SHWITNESS"
        ELSE IF psbt_output.witness_script # <<>> THEN "PAYTOWITNESS"
        ELSE "PAYTOADDRESS"

\* an OUTPUT request of the signing transaction was answered with a full output
SigningOutputAcked ==
    Asked("TXOUTPUT") /\ HasNeededFields /\ ~ack_req.has_tx_hash /\ ack_out.ok

\* C27: the full output that answers an OUTPUT request of the signing transaction
\* has, for every PSBT output, script type PAYTOOPRETURN and the script bytes after
\* the first as op_return_data when the script is OP_RETURN, else PAYTOP2SHWITNESS
\* with a witness_script and a redeem_script, else PAYTOWITNESS with a
\* witness_script, else PAYTOADDRESS; address_n is set iff exactly one HD keypath
\* is known.
C27_OutputScriptType ==
    SigningOutputAcked =>
        LET script      == ack_psbt.unsigned_tx.output[ack_req.request_index + 1].script_pubkey
            psbt_output == ack_psbt.outputs[ack_req.request_index + 1]
            data        == ack_out.val.data
        IN  /\ data.script_type = ExpectedOutputScriptType
            /\ script.kind = "op_return" =>
                  data.op_return_data = <<SubSeq(script.bytes, 2, Len(script.bytes))>>
            /\ data.address_n # <<>> <=> Len(psbt_output.hd_keypaths) = 1

\* the output a signing input spends, as the PSBT input gives it
ExpectedSpent ==
    LET psbt_input == ack_psbt.inputs[ack_req.request_index + 1]
        vout == ack_psbt.unsigned_tx.input[ack_req.request_index + 1].previous_output.vout
    IN  IF psbt_input.witness_utxo # <<>> THEN psbt_input.witness_utxo[1]
        ELSE psbt_input.non_witness_utxo[1].output[vout + 1]

ExpectedInputScriptType ==
    LET kind == ExpectedSpent.script_pubkey.kind
    IN  IF kind = "p2pkh" THEN "SPENDADDRESS"
        ELSE IF kind \in {"p2wpkh", "p2wsh"} THEN "SPENDWITNESS"
        ELSE IF kind = "p2sh"
                /\ ack_psbt.inputs[ack_req.request_index + 1].witness_script # <<>>
        THEN "SPENDP2SHWITNESS"
        ELSE "EXTERNAL"

\* C28: the input that answers an INPUT request of the signing transaction has
\* script type SPENDADDRESS for a P2PKH output spent, else SPENDWITNESS for v0
\* P2WPKH or P2WSH, else SPENDP2SHWITNESS for P2SH with a witness_script in the
\* PSBT input, else EXTERNAL; the input that answers an INPUT request of a
\* dependent transaction has no script_type, no amount and no address_n.
C28_InputScriptType ==
    (Asked("TXINPUT") /\ ack_out.ok) =>
        IF ack_req.has_tx_hash
        THEN /\ ack_out.val.data.script_type = <<>>
             /\ ack_out.val.data.amount = <<>>
             /\ ack_out.val.data.address_n = <<>>
        ELSE /\ ack_out.val.data.script_type = <<ExpectedInputScriptType>>
             /\ ack_out.val.data.amount = <<ExpectedSpent.value>>

C28_Witness ==
    /\ Asked("TXINPUT")
    /\ ack_out.ok
    /\ ~ack_req.has_tx_hash
    /\ ack_psbt.inputs[ack_req.request_index + 1].witness_script # <<>>
    /\ ExpectedSpent.script_pubkey.kind = "p2sh"
    /\ ack_out.val.data.script_type = <<"SPENDP2SHWITNESS">>

\* the step is an ack_psbt of the SignTxProgress held
AckPsbtStep ==
    /\ HoldsProgress(held)
    /\ cres' # cres
    /\ cres'.before = held
    /\ cres'.arg \in {<<psbt>> : psbt \in Psbts}

\* C22: an ack_psbt on a SignTxProgress whose TxRequest asks for EXTRADATA fails
\* hard: it builds no TxAck and no message is written to the device.
C22_ExtraDataFails ==
    [][(AckPsbtStep /\ RequestType(held.value[2]) = "TXEXTRADATA") =>
          /\ cres'.op = "panic"
          /\ cres'.sent = <<>>
          /\ trace' = trace]_vars

C22_Witness ==
    /\ cres.op = "panic"
    /\ HoldsProgress(cres.before)
    /\ RequestType(cres.before.value[2]) = "TXEXTRADATA"
    /\ cres.arg \in {<<psbt>> : psbt \in Psbts}
    /\ trace # <<>>
    /\ trace[Len(trace)].op = "read"

\* the step is an operation that was given a network
NetworkStep == cres' # cres /\ cres'.arg \in {<<network>> : network \in Networks}

\* C29: get_public_key, get_address, sign_tx and sign_message on a network other
\* than Bitcoin and Testnet return UnsupportedNetwork and write nothing; on Bitcoin
\* the message written carries the coin name "Bitcoin", on Testnet "Testnet".
C29_UnsupportedNetwork ==
    [][NetworkStep =>
          IF cres'.arg[1] \in {"Bitcoin", "Testnet"}
          THEN /\ cres'.op = "call"
               /\ cres'.sent[1] \in {"GetPublicKey", "GetAddress", "SignTx", "SignMessage"}
               /\ cres'.sent[2] = cres'.arg[1]
               /\ trace'[1].op = "write" /\ trace'[1].mtype = cres'.sent[1]
          ELSE /\ cres'.op \in {"get_public_key", "get_address", "sign_tx", "sign_message"}
               /\ ~cres'.ok
               /\ cres'.err = <<"UnsupportedNetwork">>
               /\ cres'.sent = <<>>
               /\ trace' = trace
               /\ held' = held]_vars

C29_Witness ==
    /\ cres.op = "sign_message"
    /\ cres.arg = <<"Regtest">>
    /\ cres.err = <<"UnsupportedNetwork">>
    /\ trace # <<>>
    /\ trace[1].mtype = "GetAddress"

\* C30: the cached Features change only in an init_device that succeeds, which
\* sets them to the Features message the device returned; every other operation,
\* and an init_device that ends in an error, a Failure or an interaction, leaves
\* them as they were.
C30_FeaturesFrame ==
    [][/\ features' # features =>
             /\ cres'.op = "init_device"
             /\ cres'.ok
             /\ cres'.recv.mtype = "Features"
       /\ (cres'.op = "init_device" /\ cres'.ok) =>
             features' = <<"message", cres'.recv.body>>
       /\ (cres' # cres /\ ~(cres'.op = "init_device" /\ cres'.ok)) =>
             features' = features]_vars

C30_Witness ==
    /\ features # <<>>
    /\ cres.op = "init_device"
    /\ ~cres.ok
    /\ cres.recv.mtype = "Failure"

(***************************************************************************)
(* The layout of what the framers write, and where a read stops.           *)
(***************************************************************************)
\* byte k (from 1) of the chunks handed to the link, the first skip bytes of every
\* chunk left out
HandedByte(skip, k) ==
    handed[((k - 1) \div (64 - skip)) + 1][((k - 1) % (64 - skip)) + skip + 1]

\* C33: for a message of type t and a payload of n bytes ProtocolV1::write emits
\* ceil((8 + n) / 63) chunks, each beginning with 0x3f; the bytes after the markers,
\* in order, are 0x23 0x23, t on 16 bits big-endian, n on 32 bits big-endian, the
\* payload, and then zeros only.
C33_V1WriteLayout ==
    (fres.op = "write" /\ fres.proto = "V1") =>
        LET t == fres.mtype
            n == Len(fres.payload)
        IN  /\ Len(handed) = (8 + n + 62) \div 63
            /\ \A i \in DOMAIN handed : Len(handed[i]) = 64 /\ handed[i][1] = 63
            /\ HandedByte(1, 1) = 35 /\ HandedByte(1, 2) = 35
            /\ HandedByte(1, 3) = t \div 256 /\ HandedByte(1, 4) = t % 256
            /\ HandedByte(1, 5) = 0 /\ HandedByte(1, 6) = 0
            /\ HandedByte(1, 7) = n \div 256 /\ HandedByte(1, 8) = n % 256
            /\ \A k \in 1..n : HandedByte(1, 8 + k) = fres.payload[k]
            /\ \A k \in (8 + n + 1)..(63 * Len(handed)) : HandedByte(1, k) = 0

C33_Witness ==
    /\ fres.op = "write" /\ fres.proto = "V1"
    /\ fres.mtype = 400 /\ Len(fres.payload) = V1Capacity(1) + 1
    /\ Len(handed) = 2

\* a step of the read of the framer proto
FramerReadStep(proto) ==
    /\ fres'.op = "read" /\ fres'.proto = proto
    /\ origin' = NoOrigin
    /\ fres' # fres \/ inbox' # inbox

\* C34: a ProtocolV1::read that returns a message has consumed the first chunk and
\* the continuation chunks the declared length n needs, none for n <= 55 and
\* ceil((n - 55) / 63) otherwise, and no chunk more; the payload it returns is the
\* first n bytes behind the header and the markers.
C34_V1ReadStop ==
    [][(FramerReadStep("V1") /\ fres'.status = "Ok") =>
          LET n == ReadU32(Slice(Head(inbox), 5, 9))
              more == IF n <= 55 THEN 0 ELSE (n - 55 + 62) \div 63
          IN  /\ Len(inbox) - Len(inbox') = 1 + more
              /\ inbox' = SubSeq(inbox, 2 + more, Len(inbox))
              /\ Len(fres'.payload) = n
              /\ \A k \in 1..n :
                    fres'.payload[k] =
                        IF k <= 55 THEN inbox[1][9 + k]
                        ELSE inbox[2 + ((k - 56) \div 63)][2 + ((k - 56) % 63)]]_vars

\* a read that took one continuation chunk and left the chunk behind it queued
C34_Witness ==
    /\ fres.op = "read" /\ fres.proto = "V1" /\ fres.status = "Ok"
    /\ Len(fres.payload) = 100
    /\ Len(inbox) = 1

\* the four bytes of v, high byte first
BigEndian32(v) ==
    <<v \div 16777216, (v \div 65536) % 256, (v \div 256) % 256, v % 256>>

\* C35: the first chunk ProtocolV2::write emits is 0x01, the session id on four bytes
\* big-endian, the type and the length on 32 bits big-endian and payload; every later
\* chunk is 0x01, the session id, a sequence number on four bytes (0 on the second
\* chunk, one more on each next chunk) and payload; the session id written is the
\* stored one.
C35_V2WritePrefixes ==
    (fres.op = "write" /\ fres.proto = "V2" /\ fres.status = "Ok") =>
        LET n == Len(fres.payload)
            first == handed[1]
        IN  /\ fres.sid = session_id
            /\ Len(handed) = IF 8 + n <= 59 THEN 1 ELSE 1 + ((8 + n - 59 + 54) \div 55)
            /\ first[1] = 1
            /\ SubSeq(first, 2, 5) = BigEndian32(session_id)
            /\ SubSeq(first, 6, 9) = BigEndian32(fres.mtype)
            /\ SubSeq(first, 10, 13) = BigEndian32(n)
            /\ \A i \in 2..Len(handed) :
                  /\ handed[i][1] = 1
                  /\ SubSeq(handed[i], 2, 5) = BigEndian32(session_id)
                  /\ SubSeq(handed[i], 6, 9) = BigEndian32(i - 2)
            /\ \A k \in 1..n :
                  fres.payload[k] =
                      IF k <= 51 THEN first[13 + k]
                      ELSE handed[2 + ((k - 52) \div 55)][10 + ((k - 52) % 55)]

C35_Witness ==
    /\ fres.op = "write" /\ fres.proto = "V2" /\ fres.status = "Ok"
    /\ session_id = 16909060
    /\ Len(handed) = 3

(***************************************************************************)
(* The order of the header checks of a read.                               *)
(***************************************************************************)
\* the session id and the type tag a V2 chunk carries, and the tag of a V1 chunk
ChunkSid(chunk) == ReadU32(SubSeq(chunk, 2, 5))
ChunkTagV2(chunk) == ReadU32(SubSeq(chunk, 6, 9))
ChunkTagV1(chunk) == chunk[4] * 256 + chunk[5]

\* C36: on a read, a first chunk with a wrong magic fails with DeviceBadMagic whatever
\* else it holds; a V2 chunk with the right magic and a session id other than the
\* stored one fails with DeviceBadSessionId whatever its type tag or sequence number;
\* a first chunk past these checks whose tag is no known type fails with
\* InvalidMessageType carrying that tag.
C36_ValidationOrder ==
    [][/\ (FramerReadStep("V1") /\ inbox # <<>>) =>
            LET c == Head(inbox)
            IN  IF c[1] # 63 \/ c[2] # 35 \/ c[3] # 35
                THEN fres'.status = "DeviceBadMagic"
                ELSE ChunkTagV1(c) \notin MessageTypeIds =>
                        /\ fres'.status = "InvalidMessageType"
                        /\ fres'.mtype = ChunkTagV1(c)
       /\ (FramerReadStep("V2") /\ inbox # <<>> /\ session_id # 0) =>
            LET c == Head(inbox)
                last == inbox[Len(inbox) - Len(inbox')]
            IN  /\ IF c[1] # 1 THEN fres'.status = "DeviceBadMagic"
                   ELSE IF ChunkSid(c) # session_id
                   THEN fres'.status = "DeviceBadSessionId"
                   ELSE ChunkTagV2(c) \notin MessageTypeIds =>
                           /\ fres'.status = "InvalidMessageType"
                           /\ fres'.mtype = ChunkTagV2(c)
                /\ (/\ Len(inbox) - Len(inbox') > 1
                    /\ fres'.status \notin {"Ok", "DeviceReadTimeout"}) =>
                       IF last[1] # 2 THEN fres'.status = "DeviceBadMagic"
                       ELSE IF ChunkSid(last) # session_id
                       THEN fres'.status = "DeviceBadSessionId"
                       ELSE fres'.status = "DeviceUnexpectedSequenceNumber"]_vars

\* a V2 first chunk with the right magic, a foreign session id and an unknown tag
\* was read
C36_Witness ==
    /\ fres.op = "read" /\ fres.proto = "V2" /\ fres.status = "DeviceBadSessionId"
    /\ fres.src.kind = "chunks" /\ fres.src.sid # fres.sid
    /\ fres.src.msg.mtype = 9999
    /\ Len(inbox) = 1

(***************************************************************************)
(* What a failed read leaves in the link.                                  *)
(***************************************************************************)
\* the failures of a read that come from the header of a chunk
HeaderFailures ==
    {"DeviceBadMagic", "DeviceBadSessionId", "DeviceUnexpectedSequenceNumber",
     "InvalidMessageType"}

\* chunk passes the checks a read of the framer proto makes on a first chunk
AcceptedFirst(proto, chunk) ==
    IF proto = "V1"
    THEN /\ chunk[1] = 63 /\ chunk[2] = 35 /\ chunk[3] = 35
         /\ ChunkTagV1(chunk) \in MessageTypeIds
    ELSE /\ chunk[1] = 1 /\ ChunkSid(chunk) = session_id
         /\ ChunkTagV2(chunk) \in MessageTypeIds

\* chunk passes the checks made on the continuation chunk number seq, from 0
AcceptedNext(proto, chunk, seq) ==
    IF proto = "V1" THEN chunk[1] = 63
    ELSE /\ chunk[1] = 2 /\ ChunkSid(chunk) = session_id
         /\ ReadU32(SubSeq(chunk, 6, 9)) = seq

\* C39: a read that fails on the header of a chunk has consumed the chunks up to and
\* including the first one that does not pass its checks and nothing behind it: the
\* chunks queued behind stay in the link, and the next read takes the first of them
\* as the first chunk of a message.
C39_FailedReadLeavesRest ==
    [][\A proto \in {"V1", "V2"} :
          (FramerReadStep(proto) /\ fres'.status \in HeaderFailures) =>
              LET k == Len(inbox) - Len(inbox')
              IN  /\ k >= 1
                  /\ inbox' = SubSeq(inbox, k + 1, Len(inbox))
                  /\ IF k = 1 THEN ~AcceptedFirst(proto, inbox[1])
                     ELSE /\ AcceptedFirst(proto, inbox[1])
                          /\ \A i \in 2..(k - 1) : AcceptedNext(proto, inbox[i], i - 2)
                          /\ ~AcceptedNext(proto, inbox[k], k - 2)]_vars

\* a read that took a chunk left behind by a failed read as a first chunk, with a
\* chunk of the same message still queued behind it
C39_Witness ==
    /\ fres.op = "read" /\ fres.status = "DeviceBadMagic"
    /\ fres.src.kind = "none"
    /\ inbox # <<>>

(***************************************************************************)
(* The session id across a failed session_begin or session_end.            *)
(***************************************************************************)
\* a step of session_begin or session_end
SessionStep(op) ==
    /\ fres'.op = op /\ fres'.proto = "V2"
    /\ origin' = NoOrigin
    /\ fres' # fres \/ inbox' # inbox

C31_HidProbe ==
    link.offered # <<>> =>
        LET accepted65 == link.offered[1].ok /\ link.offered[1].n = 65
            accepted64 == link.offered[2].ok /\ link.offered[2].n = 64
            Opened(version) ==
                /\ link.status = "Ok" /\ link.kind = "hid"
                /\ link.handle = "open" => hid_version = version
        IN  /\ link.probe[1] = <<0, 63>> \o [i \in 1..63 |-> 255]
            /\ accepted65 => Len(link.probe) = 1 /\ Opened("V2")
            /\ ~accepted65 =>
                  /\ Len(link.probe) = 2
                  /\ link.probe[2] = <<63>> \o [i \in 1..63 |-> 255]
                  /\ accepted64 => Opened("V1")
                  /\ ~accepted64 =>
                        link.status = "UnknownHidVersion" /\ link.kind = "none"

\* C32: the drop of a transport releases the device handle, and before it the USB
\* interface the handle has claimed, ahead of the library context, on the HID link
\* and on the WebUSB link; no link holds an open handle without its context.
C32_TeardownOrder ==
    /\ \A i, j \in DOMAIN link.released :
          (link.released[i] = "context" /\ link.released[j] # "context") => j < i
    /\ link.handle = "open" => link.context = "live"
    /\ (link.kind = "hid" /\ link.handle = "none") =>
          link.released = <<"handle", "context">>
    /\ (link.kind = "webusb" /\ link.handle = "none") =>
          link.released = <<"interface", "handle", "context">>

\* a HID link made by a successful connect was dropped
C32_Witness ==
    /\ link.kind = "hid" /\ link.handle = "none" /\ link.context = "none"
    /\ link.status = "Ok"
    /\ Len(link.released) = 2

(***************************************************************************)
(* An ack_psbt that cannot build its ack.                                  *)
(***************************************************************************)
\* the errors of ack_input_request, ack_output_request and ack_meta_request
AckBuildErrors ==
    {"MalformedTxRequest", "TxRequestUnknownTxid", "TxRequestInvalidIndex",
     "PsbtMissingInputTx", "InvalidPsbt"}

\* C38: an ack_psbt whose ack cannot be built from the PSBT returns the error of the
\* builder and writes nothing; the SignTxProgress is consumed all the same, so the
\* TxRequest the device sent last stays unanswered and the caller holds nothing to
\* answer it with.
C38_AckBuildFailure ==
    [][(/\ AckPsbtStep
        /\ RequestType(held.value[2]) \notin {"TXFINISHED", "TXEXTRADATA"}
        /\ ~BuildAck(held.value[2], cres'.arg[1]).ok) =>
          /\ ~cres'.ok
          /\ cres'.err = BuildAck(held.value[2], cres'.arg[1]).err
          /\ cres'.err[1] \in AckBuildErrors
          /\ cres'.sent = <<>>
          /\ trace' = trace /\ wire' = wire
          /\ trace[Len(trace)].op = "read"
          /\ held' = NoResponse]_vars

\* an ack_psbt failed for want of the transaction an input spends, with the request
\* of the device read and unanswered
C38_Witness ==
    /\ cres.op = "ack_psbt" /\ ~cres.ok
    /\ cres.err[1] = "PsbtMissingInputTx"
    /\ HoldsProgress(cres.before)
    /\ held = NoResponse
    /\ trace # <<>> /\ trace[Len(trace)].op = "read"

(***************************************************************************)
(* A continuation dropped without its ack.                                 *)
(***************************************************************************)
\* the caller dropped an interaction request without acknowledging it: the device
\* has sent its request and waits for the ack
AckOutstanding ==
    /\ held = NoResponse
    /\ cres.op = "drop" /\ cres.before.variant \in InteractionRequests

====
